---- MODULE Spec2Model ----
(***************************************************************************)
(* A model of the DFU/DfuSe protocol engine of dfu-flasher-nusb            *)
(* (src/dfu-nusb/src/core.rs) together with the memory layout of           *)
(* src/dfu/src/memory_layout.rs and the State/Status types of              *)
(* src/dfu/src/status.rs.                                                  *)
(*                                                                         *)
(* The engine is a single sequential thread.  Every function of the engine *)
(* is translated into one action per stretch of code between two calls or  *)
(* control transfers; `pc` is the position of the thread, `stack` the      *)
(* positions its callers return to, `ret` the last return value.  The USB  *)
(* device is the environment: each control transfer is answered by the     *)
(* device relation below.                                                  *)
(***************************************************************************)
EXTENDS Integers, Sequences, FiniteSets, TLC

VARIABLES
    pc,       \* position of the engine
    stack,    \* return positions of the callers (innermost first)
    ret,      \* Result of the call that returned last
    op,       \* the public operation under way, with its arguments
    dev,      \* the device: mode ("spec" | "any") and current state byte
    dfu,      \* struct Dfu: detached, transfer_size, mem_layout
    gs,       \* frame of get_status
    swf,      \* frame of status_wait_for
    a2i,      \* frame of abort_to_idle
    aco,      \* frame of abort_to_idle_clear_once
    dd,       \* frame of dfuse_download
    ep,       \* frame of erase_pages
    dr,       \* frame of download_raw
    vf,       \* frame of verify (with its Transaction and the file)
    wire,     \* history of the control transfers issued by the operation
    fr,       \* frames of set_address, reset_stm32, upload and drop
    ml,       \* a layout string, and a question put to the layout parsed from it
    tx,       \* a Transaction and the chunks it has given
    cv        \* a conversion: the value it is given and the value it gives

vars == <<pc, stack, ret, op, dev, dfu, gs, swf, a2i, aco, dd, ep, dr, vf, wire, fr,
          ml, tx, cv>>

(***************************************************************************)
(* Bounds of the model.                                                    *)
(***************************************************************************)
MaxRetries == 2      \* retries arguments 0..MaxRetries (and 255) are tried
MaxChunks == 3       \* lengths up to MaxChunks transfer units are tried
MaxXfer == 2         \* transfer sizes 1..MaxXfer are tried for a verify
MaxBusy == 2         \* a busy device is polled MaxBusy times more at most

(***************************************************************************)
(* Integer widths.                                                         *)
(***************************************************************************)
U8Max == 255
U16Max == 65535

\* `x += 1` on a u8: the sum, or on overflow the wrapped value (release
\* build) or a panic (debug build, overflow checks on).
Panic == 0 - 1
U8Zero(x) == {0}
U8AddOne(x) == IF x < U8Max THEN {x + 1} ELSE {0, Panic}
U16AddOne(x) == IF x < U16Max THEN {x + 1} ELSE {0, Panic}

(***************************************************************************)
(* src/dfu-nusb/src/core.rs: request codes.                                *)
(***************************************************************************)
DFU_DETACH == 0
DFU_DNLOAD == 1
DFU_UPLOAD == 2
DFU_GET_STATUS == 3
DFU_CLRSTATUS == 4
DFU_ABORT == 6

(***************************************************************************)
(* src/dfu/src/status.rs: State and its byte codes.                        *)
(***************************************************************************)
State == {"AppIdle", "AppDetach", "DfuIdle", "DfuDownloadSync",
          "DfuDownloadBusy", "DfuDownloadIdle", "DfuManifestSync",
          "DfuManifest", "DfuManifestWaitReset", "DfuUploadIdle",
          "DfuError", "Unknown"}

\* impl From<&State> for u8
U8FromState(s) ==
    CASE s = "AppIdle" -> 0
      [] s = "AppDetach" -> 1
      [] s = "DfuIdle" -> 2
      [] s = "DfuDownloadSync" -> 3
      [] s = "DfuDownloadBusy" -> 4
      [] s = "DfuDownloadIdle" -> 5
      [] s = "DfuManifestSync" -> 6
      [] s = "DfuManifest" -> 7
      [] s = "DfuManifestWaitReset" -> 8
      [] s = "DfuUploadIdle" -> 9
      [] s = "DfuError" -> 10
      [] OTHER -> 255

StateUnknown(b) == "Unknown"

\* impl From<u8> for State
StateFromU8(b) ==
    CASE b = 0 -> "AppIdle"
      [] b = 1 -> "AppDetach"
      [] b = 2 -> "DfuIdle"
      [] b = 3 -> "DfuDownloadSync"
      [] b = 4 -> "DfuDownloadBusy"
      [] b = 5 -> "DfuDownloadIdle"
      [] b = 6 -> "DfuManifestSync"
      [] b = 7 -> "DfuManifest"
      [] b = 8 -> "DfuManifestWaitReset"
      [] b = 9 -> "DfuUploadIdle"
      [] b = 10 -> "DfuError"
      [] OTHER -> "Unknown"

\* the bytes a device can put in bState that the engine tells apart
StateBytes == {U8FromState(s) : s \in State}

\* struct Status; Status::default() is all zero
Status(status, state) ==
    [status |-> status, poll_timeout |-> 0, state |-> state, string_index |-> 0]
DefaultStatus == Status(0, 0)

(***************************************************************************)
(* src/dfu-nusb/src/error.rs: Result<_, Error>.  One record shape for all  *)
(* variants: tag is "Ok" or the variant of Error; kind is the              *)
(* io::ErrorKind of a USB error; st and exp are the fields of              *)
(* InvalidState / InvalidStatus (and st the Status of an Ok(Status));      *)
(* addr is the field of Address / Verify / UnknownCommandByte.             *)
(***************************************************************************)
Res(tag, kind, st, exp, addr) ==
    [tag |-> tag, kind |-> kind, st |-> st, exp |-> exp, addr |-> addr]
Ok == Res("Ok", "", DefaultStatus, "", 0)
OkStatus(s) == Res("Ok", "", s, "", 0)
ErrArgument == Res("Argument", "", DefaultStatus, "", 0)
ErrUSB(kind) == Res("USB", kind, DefaultStatus, "", 0)
ErrInvalidControlResponse == Res("InvalidControlResponse", "", DefaultStatus, "", 0)
ErrInvalidState(s, expected) == Res("InvalidState", "", s, expected, 0)
ErrInvalidStatus(s) == Res("InvalidStatus", "", s, "0", 0)
ErrAddress(a) == Res("Address", "", DefaultStatus, "", a)
ErrVerify(a) == Res("Verify", "", DefaultStatus, "", a)
ErrFileIO == Res("FileIO", "", DefaultStatus, "", 0)
ErrDeviceNotFound == Res("DeviceNotFound", "", DefaultStatus, "", 0)
ErrMemoryLayout == Res("MemoryLayout", "", DefaultStatus, "", 0)
ErrUnknownCommandByte(b) == Res("UnknownCommandByte", "", DefaultStatus, "", b)
IsOk(r) == r.tag = "Ok"

\* the io::ErrorKind values the engine tells apart
UsbErrorKinds == {"BrokenPipe", "Other"}

ExitCodeZero(r) == 0

\* src/dfu-nusb/src/error.rs 24-41: impl From<Error> for i32, the exit code
\* of the process for an error returned by run_main (main.rs 347-350; a
\* process whose run_main returned Ok ends with 0)
ExitCode(r) ==
    CASE r.tag = "DeviceNotFound" -> 64
      [] r.tag = "Argument" -> 65
      [] r.tag = "USB" -> 66
      [] r.tag = "InvalidControlResponse" -> 68
      [] r.tag = "InvalidState" -> 69
      [] r.tag = "InvalidStatus" -> 70
      [] r.tag = "FileIO" -> 71
      [] r.tag = "UnknownCommandByte" -> 72
      [] r.tag = "Address" -> 73
      [] r.tag = "Verify" -> 74
      [] r.tag = "MemoryLayout" -> 75
      [] OTHER -> 0

(***************************************************************************)
(* The device.  dev.mode = "spec": the device follows the transitions of   *)
(* the DFU state machine the engine relies on and the bus carries every    *)
(* transfer; dev.mode = "any": every transfer may fail and every status    *)
(* reply may report any state, so dev.state says nothing and stays as it   *)
(* is.                                                                     *)
(***************************************************************************)
DevIdle == U8FromState("DfuIdle")
DevBusy == U8FromState("DfuDownloadBusy")
DevDnIdle == U8FromState("DfuDownloadIdle")
DevUpIdle == U8FromState("DfuUploadIdle")
DevError == U8FromState("DfuError")

\* GET_STATUS: the reply (Status::get's result) and the device afterwards.
\* A device following the protocol reports its state, with a nonzero bStatus
\* in DfuError, and a busy device may have finished by the next poll; it
\* reports DfuDownloadBusy at most MaxBusy more times after the first
\* (d.busy counts them).
DevGetStatus(d) ==
    IF d.mode = "spec"
    THEN {[res |-> OkStatus(Status(IF d.state = DevError THEN 1 ELSE 0, d.state)),
           next |-> n] :
            n \in IF d.state = DevBusy
                  THEN {[d EXCEPT !.state = DevDnIdle, !.busy = 0]}
                       \cup (IF d.busy < MaxBusy
                             THEN {[d EXCEPT !.busy = d.busy + 1]} ELSE {})
                  ELSE {d}}
    ELSE {[res |-> OkStatus(Status(e, b)), next |-> d] :
            e \in {0, 1}, b \in StateBytes}
         \cup {[res |-> ErrUSB(k), next |-> d] : k \in UsbErrorKinds}
         \cup {[res |-> ErrInvalidControlResponse, next |-> d]}

\* DNLOAD: accepted from DfuIdle and DfuDownloadIdle (then DfuDownloadBusy),
\* or refused with a stall (then DfuError).
DevDnload(d) ==
    IF d.mode = "spec"
    THEN (IF d.state \in {DevIdle, DevDnIdle}
          THEN {[out |-> "Ok", next |-> [d EXCEPT !.state = DevBusy, !.busy = 0]]}
          ELSE {})
         \cup {[out |-> "Stall", next |-> [d EXCEPT !.state = DevError]]}
    ELSE {[out |-> o, next |-> d] : o \in {"Ok", "Stall", "Error"}}

\* ABORT: from any state to DfuIdle, or to DfuError when a CLR_STATUS is needed.
DevAbort(d) ==
    IF d.mode = "spec"
    THEN {[out |-> "Ok", next |-> [d EXCEPT !.state = n, !.busy = 0]] :
            n \in {DevIdle, DevError}}
    ELSE {[out |-> o, next |-> d] : o \in {"Ok", "Error"}}

\* CLR_STATUS: from DfuError to DfuIdle.
DevClrStatus(d) ==
    IF d.mode = "spec"
    THEN {[out |-> "Ok",
           next |-> IF d.state = DevError THEN [d EXCEPT !.state = DevIdle] ELSE d]}
    ELSE {[out |-> o, next |-> d] : o \in {"Ok", "Error"}}

\* UPLOAD: the device sends up to `length` bytes of its memory from the
\* address pointer plus (wBlockNum - 2) * wTransferSize on and is in
\* DfuUploadIdle, or refuses with a stall (then DfuError).
DevUpload(d, transaction, length, transfer_size) ==
    LET from == (transaction - 2) * transfer_size
        upto == IF from + length <= Len(d.flash) THEN from + length ELSE Len(d.flash)
    IN IF d.mode = "spec"
       THEN (IF d.state \in {DevIdle, DevUpIdle} /\ transaction >= 2
             THEN {[out |-> "Ok", data |-> SubSeq(d.flash, from + 1, upto),
                    next |-> [d EXCEPT !.state = DevUpIdle]]}
             ELSE {})
            \cup {[out |-> "Error", data |-> <<>>, next |-> [d EXCEPT !.state = DevError]]}
       ELSE {[out |-> "Ok", data |-> SubSeq(d.flash, from + 1, upto), next |-> d],
             [out |-> "Error", data |-> <<>>, next |-> d]}

(***************************************************************************)
(* src/dfu/src/memory_layout.rs                                            *)
(***************************************************************************)
Page(address, size) == [address |-> address, size |-> size]

\* FromStr, lines 48-51: `count` pages of `size` bytes from `address` on
RECURSIVE PushPages(_, _, _, _)
PushPages(pages, address, size, count) ==
    IF count = 0 THEN [pages |-> pages, address |-> address]
    ELSE PushPages(Append(pages, Page(address, size)), address + size, size, count - 1)

\* FromStr, lines 26-53, for the parsed regions <<count, size in bytes>>
RECURSIVE PagesFrom(_, _, _)
PagesFrom(pages, address, regions) ==
    IF regions = <<>> THEN pages
    ELSE LET r == PushPages(pages, address, Head(regions)[2], Head(regions)[1])
         IN PagesFrom(r.pages, r.address, Tail(regions))

\* a test that takes the end of the page for a part of it
HoldsToEnd(p, a) == a >= p.address /\ a <= p.address + p.size

\* MemoryLayout::address, line 92: whether the page holds the address
Holds(p, a) == a >= p.address /\ a < p.address + p.size

\* MemoryLayout::address, lines 90-100: the first page that holds `address`
RECURSIVE address_from(_, _, _)
address_from(pages, i, address) ==
    IF i > Len(pages) THEN [ok |-> FALSE, page |-> Page(0, 0)]
    ELSE IF Holds(pages[i], address)
         THEN [ok |-> TRUE, page |-> Page(pages[i].address, pages[i].size)]
         ELSE address_from(pages, i + 1, address)
address(pages, a) == address_from(pages, 1, a)

\* MemoryLayout::num_pages, lines 79-88: [ok, pages] or the unmapped address
RECURSIVE num_pages_from(_, _, _, _)
num_pages_from(layout, a, end, pages) ==
    IF a < end
    THEN LET p == address(layout, a)
         IN IF p.ok THEN num_pages_from(layout, a + p.page.size, end, pages + 1)
            ELSE [ok |-> FALSE, pages |-> 0, addr |-> a]
    ELSE [ok |-> TRUE, pages |-> pages, addr |-> 0]
\* a count of the pages up to and with the one at the end
num_pages_to_end(layout, a, length) == num_pages_from(layout, a, a + length + 1, 0)
num_pages(layout, a, length) == num_pages_from(layout, a, a + length, 0)

(***************************************************************************)
(* src/dfu-flasher/src/dfuse_command.rs                                    *)
(***************************************************************************)
SetAddress(a) == [cmd |-> "SetAddress", address |-> a]
ErasePage(a) == [cmd |-> "ErasePage", address |-> a]
MassErase == [cmd |-> "MassErase", address |-> 0]
ReadUnprotected == [cmd |-> "ReadUnprotected", address |-> 0]

VecBigEndian(command) ==
    LET a == command.address
    IN IF command.cmd \in {"SetAddress", "ErasePage"}
       THEN <<IF command.cmd = "SetAddress" THEN 33 ELSE 65,
              (a \div 16777216) % 256, (a \div 65536) % 256, (a \div 256) % 256,
              a % 256>>
       ELSE <<IF command.cmd = "MassErase" THEN 65 ELSE 146>>

\* impl From<DfuseCommand> for Vec<u8>, lines 24-55
VecFromDfuseCommand(command) ==
    LET opcode == CASE command.cmd = "SetAddress" -> 33          \* 0x21
                    [] command.cmd = "ErasePage" -> 65           \* 0x41
                    [] command.cmd = "MassErase" -> 65           \* 0x41
                    [] OTHER -> 146                               \* 0x92
        a == command.address
    IN IF command.cmd \in {"SetAddress", "ErasePage"}
       THEN <<opcode, a % 256, (a \div 256) % 256, (a \div 65536) % 256,
              (a \div 16777216) % 256>>
       ELSE <<opcode>>


\* no command (the Err side of a Result<DfuseCommand, Error>)
NoCommand == [cmd |-> "", address |-> 0]

try_from_erase_page(cmd) ==
    IF cmd = 65 THEN [res |-> Ok, command |-> ErasePage(0)]
    ELSE [res |-> ErrUnknownCommandByte(cmd), command |-> NoCommand]

\* impl TryFrom<u8> for DfuseCommand, lines 11-22
try_from(cmd) ==
    CASE cmd = 33 -> [res |-> Ok, command |-> SetAddress(0)]       \* 0x21
      [] cmd = 65 -> [res |-> Ok, command |-> MassErase]           \* 0x41
      [] cmd = 146 -> [res |-> Ok, command |-> ReadUnprotected]    \* 0x92
      [] OTHER -> [res |-> ErrUnknownCommandByte(cmd), command |-> NoCommand]
(***************************************************************************)
(* src/dfu/src/memory_layout.rs: FromStr for MemoryLayout (17-55).  A      *)
(* string is the sequence of its characters.  Numbers are u32; the strings *)
(* parsed here keep every number that is not an overflow below 2^31.       *)
(***************************************************************************)
\* char::is_numeric and char::is_alphabetic, for the characters of the
\* strings parsed here
Numeric == {"0", "1", "2", "3", "4", "5", "6", "7", "8", "9"}
Alphabetic == {"a", "b", "c", "d", "e", "f", "g", "x", "z", "F", "G", "K", "M"}

\* char::to_digit: the value of a digit in the radix, or Panic for None
Digits == <<"0", "1", "2", "3", "4", "5", "6", "7", "8", "9",
            "a", "b", "c", "d", "e", "f">>
to_digit(c, radix) ==
    LET is == {i \in 1 .. radix : Digits[i] = c}
    IN IF is = {} THEN Panic ELSE (CHOOSE i \in is : TRUE) - 1

\* u32::from_str_radix / str::parse::<u32>: [ok, value]; an empty string, a
\* character that is no digit and a value above u32::MAX are errors
RECURSIVE parse_digits(_, _, _, _)
parse_digits(s, i, radix, acc) ==
    IF i > Len(s) THEN [ok |-> TRUE, value |-> acc]
    ELSE LET d == to_digit(s[i], radix)
             most == (2^30 \div radix) * 4 + (IF radix = 10 THEN 2 ELSE 0) - 1
             last == IF radix = 10 THEN 5 ELSE radix - 1
         IN IF d = Panic \/ acc > most \/ (acc = most /\ d > last)
            THEN [ok |-> FALSE, value |-> 0]
            ELSE parse_digits(s, i + 1, radix, acc * radix + d)
from_str_radix(s, radix) ==
    IF s = <<>> THEN [ok |-> FALSE, value |-> 0] ELSE parse_digits(s, 1, radix, 0)

\* str::replace("0x", ""): every occurrence from the left, none overlapping
RECURSIVE replace_0x(_)
replace_0x(s) ==
    IF Len(s) < 2 THEN s
    ELSE IF s[1] = "0" /\ s[2] = "x" THEN replace_0x(SubSeq(s, 3, Len(s)))
    ELSE <<s[1]>> \o replace_0x(Tail(s))

\* str::split(c): the pieces between the occurrences of c, at least one
RECURSIVE split_from(_, _, _, _)
split_from(s, c, piece, pieces) ==
    IF s = <<>> THEN Append(pieces, piece)
    ELSE IF Head(s) = c THEN split_from(Tail(s), c, <<>>, Append(pieces, piece))
    ELSE split_from(Tail(s), c, Append(piece, Head(s)), pieces)
split(s, c) == split_from(s, c, <<>>, <<>>)

\* str::trim_matches: the string without the characters of the class at
\* its two ends
RECURSIVE trim_matches(_, _)
trim_matches(s, class) ==
    IF s = <<>> THEN s
    ELSE IF Head(s) \in class THEN trim_matches(Tail(s), class)
    ELSE IF s[Len(s)] \in class THEN trim_matches(SubSeq(s, 1, Len(s) - 1), class)
    ELSE s

\* `size *= f` on a u32, f a power of two: the product, or on overflow the
\* wrapped value (release build) or a panic (debug build)
MulU32(x, f) ==
    LET most == (2^30 \div f) * 4 - 1
    IN IF x <= most THEN {x * f} ELSE {(x % (most + 1)) * f, Panic}

\* lines 32-52, one region `p` of the list: the pages and the address after
\* it, a MemoryLayout error, or a panic (of `&prefix[0..1]` on an empty
\* prefix, or of the multiplication)
from_str_region(p, addr, pages) ==
    LET keyval == split(p, "*")
        page_count == from_str_radix(keyval[1], 10)
        valprefix == keyval[2]
        size == from_str_radix(trim_matches(valprefix, Alphabetic), 10)
        prefix == trim_matches(valprefix, Numeric)
        sizes == IF prefix[1] = "K" THEN MulU32(size.value, 1024)
                 ELSE IF prefix[1] = "M" THEN MulU32(size.value, 1024 * 1024)
                 ELSE {}
    IN IF ~page_count.ok \/ Len(keyval) < 2 THEN {[out |-> "MemoryLayout"]}
       ELSE IF ~size.ok THEN {[out |-> "MemoryLayout"]}
       ELSE IF prefix = <<>> THEN {[out |-> "panic"]}
       ELSE IF sizes = {} THEN {[out |-> "MemoryLayout"]}
       ELSE {IF n = Panic THEN [out |-> "panic"]
             ELSE LET r == PushPages(pages, addr, n, page_count.value)
                  IN [out |-> "Ok", pages |-> r.pages, address |-> r.address] :
             n \in sizes}

\* lines 26-53: the loop over the regions
RECURSIVE from_str_regions(_, _, _, _)
from_str_regions(ps, i, addr, pages) ==
    IF i > Len(ps) THEN {[out |-> "Ok", pages |-> pages]}
    ELSE UNION {IF r.out = "Ok" THEN from_str_regions(ps, i + 1, r.address, r.pages)
                ELSE {[out |-> r.out, pages |-> <<>>]} :
                r \in from_str_region(ps[i], addr, pages)}

\* lines 19-54: the results from_str can have for the string s
from_str(s) ==
    LET sp == split(replace_0x(s), "/")
        a == from_str_radix(sp[2], 16)
    IN IF Len(sp) < 2 THEN {[out |-> "MemoryLayout", pages |-> <<>>]}
       ELSE IF ~a.ok THEN {[out |-> "MemoryLayout", pages |-> <<>>]}
       ELSE IF Len(sp) < 3 THEN {[out |-> "MemoryLayout", pages |-> <<>>]}
       ELSE from_str_regions(split(sp[3], ","), 1, a.value, <<>>)

(***************************************************************************)
(* src/dfu/src/status.rs: Status::get (97-127), from the reply `data` of   *)
(* the DFU_GET_STATUS control transfer on                                  *)
(***************************************************************************)
Status_get_little_endian(data) ==
    IF Len(data) # 6 THEN ErrInvalidControlResponse
    ELSE OkStatus([status |-> data[1],
                   poll_timeout |-> data[2] + data[3] * 256 + data[4] * 65536,
                   state |-> data[5], string_index |-> data[6]])

\* lines 114-126: the length test, then the fields in the order of the bytes;
\* `<< 16`, `<< 8` and `|` on a usize put three bytes in disjoint bits
Status_get(data) ==
    IF Len(data) # 6 THEN ErrInvalidControlResponse
    ELSE OkStatus([status |-> data[1],
                   poll_timeout |-> data[2] * 65536 + data[3] * 256 + data[4],
                   state |-> data[5], string_index |-> data[6]])

(***************************************************************************)
(* Calls and returns.                                                      *)
(***************************************************************************)
\* (the value of the last return has been consumed by the caller)
Call(callee, back) ==
    /\ pc' = callee
    /\ stack' = <<back>> \o stack
    /\ ret' = Ok

Return(r) ==
    /\ pc' = Head(stack)
    /\ stack' = Tail(stack)
    /\ ret' = r

\* frames before their function is called
\* (reads and oks are history: the Status reads made and how many succeeded)
NoGs == [retries |-> 0, status |-> ErrArgument, arg |-> 0, reads |-> 0, oks |-> 0]
\* (polls, hits, bad and failed are history: the get_status calls made, how
\* many of them reported the awaited state, how many of those with a
\* nonzero bStatus, and whether one of them failed)
NoSwf == [retries |-> 0, target |-> "Unknown", s |-> DefaultStatus, arg |-> 0,
          polls |-> 0, hits |-> 0, bad |-> 0, failed |-> FALSE]

\* the arguments of a call of get_status / status_wait_for
GsArgs(retries) == [NoGs EXCEPT !.retries = retries, !.arg = retries]
\* wait_for_state: Option<State>, None written "None"
SwfArgs(retries, wait_for_state) ==
    [NoSwf EXCEPT !.retries = retries, !.target = wait_for_state, !.arg = retries]

(***************************************************************************)
(* The configurations tried: the memory layouts a device may advertise and *)
(* its transfer size.                                                      *)
(***************************************************************************)
K == 1024
FlashBase == 8 * 16^6 + 16^4          \* 0x08010000

\* "/0x08010000/02*16K,01*64K", "/0x08010000/01*02K,02*01K",
\* "/0x08010000/03*01K", "/0x08010000/01*16K"
Layouts == {PagesFrom(<<>>, FlashBase, <<<<2, 16 * K>>, <<1, 64 * K>>>>),
            PagesFrom(<<>>, FlashBase, <<<<1, 2 * K>>, <<2, K>>>>),
            PagesFrom(<<>>, FlashBase, <<<<3, K>>>>),
            PagesFrom(<<>>, FlashBase, <<<<1, 16 * K>>>>)}

\* struct Dfu after setup (lines 162-168)
Dfu(transfer_size, mem_layout) ==
    [detached |-> FALSE, transfer_size |-> transfer_size, mem_layout |-> mem_layout]

\* Vec<u8> handed to dfuse_download: the bytes of a DfuSe command, or `len`
\* bytes read from the file at offset `off`
CmdBuf(bytes) == [kind |-> "cmd", bytes |-> bytes, off |-> 0, len |-> Len(bytes)]
FileBuf(off, len) == [kind |-> "file", bytes |-> <<>>, off |-> off, len |-> len]

\* frames before their function is called
\* (abort, left and status are history: how the ABORT transfer went, the
\* state it left the device in, and what the status read after it returned)
NoA2i == [abort |-> "", left |-> 0, status |-> Ok]
\* (last and seen are history: the result of the last get_status(0), and of
\* each of them in order; failed: whether the ABORT or CLR_STATUS transfer did)
NoAco == [last |-> Ok, reads |-> 0, failed |-> FALSE, seen |-> <<>>]
\* (out is history: how the DNLOAD transfer went)
NoDd == [buf |-> CmdBuf(<<>>), transaction |-> 0, out |-> ""]

\* (seen is history: the awaited states that the status reads reported since
\* the last ErasePage command, "" for a wait none of whose reads did)
NoEp == [address |-> 0, length |-> 0, pages |-> 0, page |-> [address |-> 0, size |-> 0],
         seen |-> <<>>]
\* (off is the position in the file, flen the length of the file; seen is
\* history, as in the frame of erase_pages: the awaited states reported since
\* the last DNLOAD of the loop)
NoDr == [address |-> 0, length |-> 0, transaction |-> 0, xfer |-> 0, off |-> 0, flen |-> 0,
         seen |-> <<>>]
NoTransaction == [transaction |-> 0, address |-> 0, pending |-> 0, xfer |-> 0, xfer_max |-> 0]
\* (file is the content of the file, off the position in it, loop_address
\* the `address` of the loop body, which the closure captures)
NoVf == [address |-> 0, length |-> 0, t |-> NoTransaction, loop_address |-> 0,
         file |-> <<>>, off |-> 0]

\* the arguments of a call of erase_pages
EpArgs(a, length) == [NoEp EXCEPT !.address = a, !.length = length]

\* (found is history: what the device lookup of the open found)
NoOp == [name |-> "", retries |-> 0, target |-> "None", address |-> 0, length |-> 0,
         found |-> ""]
\* (requests is the order of the requests: their bRequest, and for a DNLOAD
\* how it went; a run of GET_STATUS requests is entered once, with whether
\* it was more than one)
NoWire == [dnloads |-> <<>>, uploads |-> <<>>, aborts |-> 0, clears |-> 0,
           requests |-> <<>>]
Request(request, out) == [request |-> request, out |-> out, again |-> FALSE]
\* the history after one more transfer; consecutive GET_STATUS transfers are
\* one entry
Issued(w, request, out) ==
    [w EXCEPT !.requests =
        IF request = DFU_GET_STATUS /\ Len(@) > 0 /\ @[Len(@)].request = DFU_GET_STATUS
        THEN [@ EXCEPT ![Len(@)].again = TRUE]
        ELSE Append(@, Request(request, out))]
\* (input is the layout string with what it was written from; a, start,
\* length the arguments of address and num_pages; page, pages their results)
NoMl == [input |-> [s |-> <<>>, base |-> 0, regions |-> <<>>, kind |-> ""],
         a |-> 0, page |-> [ok |-> FALSE, page |-> Page(0, 0)],
         start |-> 0, length |-> 0, pages |-> [ok |-> FALSE, pages |-> 0, addr |-> 0]]
\* (length and xfer_max are the arguments of Transaction::new; the rest is
\* history: the number of chunks given so far, the sum of their sizes, and
\* the size and the counter of the last one)
NoTx == [t |-> NoTransaction, length |-> 0, xfer_max |-> 0, chunks |-> 0, sum |-> 0,
         chunk |-> [xfer |-> 0, transaction |-> 0]]
\* (result, waited and aborted are history: what the operation returned, and
\* in the drop what the wait for DfuIdle and abort_to_idle returned)
\* (seen: the awaited states that the waits of upload were given reports of)
NoFr == [address |-> 0, length |-> 0, t |-> NoTransaction, file |-> <<>>,
         broken |-> FALSE, result |-> Ok, waited |-> Ok, aborted |-> Ok,
         seen |-> <<>>]

\* the retries arguments tried for a direct call
RetriesArgs == (0 .. MaxRetries) \cup {10, U8Max}
\* the wait_for_state arguments tried ("None" is Option::None)
TargetArgs == {"None", "DfuIdle", "DfuDownloadBusy", "DfuDownloadIdle"}

\* a device of which nothing is assumed, and the devices that follow the
\* protocol, in whatever state they are found
\* (flash is what the device holds from the address pointer on)
AnyDevice == [mode |-> "any", state |-> DevIdle, busy |-> 0, flash |-> <<>>]
SpecDevices == [mode : {"spec"}, state : StateBytes, busy : {0}, flash : {<<>>}]

\* no conversion made: fn names the conversion, command / byte / state /
\* data / res are what it is given and vec / decoded / back / status / code
\* what it gives
NoCv == [fn |-> "", command |-> NoCommand, byte |-> 0, state |-> "Unknown",
         data |-> <<>>, res |-> Ok, vec |-> <<>>,
         decoded |-> [res |-> Ok, command |-> NoCommand], back |-> "Unknown",
         status |-> Ok, code |-> 0]

InitWith(devs, configs) ==
    /\ pc = "idle"
    /\ stack = <<"done">>
    /\ ret = Ok
    /\ op = NoOp
    /\ dev \in devs
    /\ dfu \in configs
    /\ gs = NoGs
    /\ swf = NoSwf
    /\ a2i = NoA2i
    /\ aco = NoAco
    /\ dd = NoDd
    /\ ep = NoEp
    /\ dr = NoDr
    /\ vf = NoVf
    /\ wire = NoWire
    /\ fr = NoFr
    /\ ml = NoMl
    /\ tx = NoTx
    /\ cv = NoCv

(***************************************************************************)
(* Dfu::get_status (core.rs 199-222)                                       *)
(***************************************************************************)
\* lines 200-201: status = Err(Argument), retries += 1
get_status_enter ==
    /\ pc = "get_status"
    /\ \E r \in U8AddOne(gs.retries) :
         IF r = Panic
         THEN /\ pc' = "panic"
              /\ UNCHANGED gs
         ELSE /\ pc' = "get_status_loop"
              /\ gs' = [gs EXCEPT !.retries = r, !.status = ErrArgument]
    /\ UNCHANGED <<stack, ret, op, dev, dfu, swf, a2i, aco, dd, ep, dr, vf, wire, fr, ml, tx, cv>>

\* the retries left after one Status::get returned `res` (lines 205-219):
\* a BrokenPipe USB error and an InvalidControlResponse `continue`, any other
\* error falls out of the `if let` chain to the loop test, a success clears
\* the counter.
RetriesAfter(res, retries) ==
    IF ~IsOk(res)
    THEN IF res.tag = "USB"
         THEN IF res.kind = "BrokenPipe"
              THEN retries      \* sleep 3000 ms; continue
              ELSE retries      \* no branch taken: back to the loop test
         ELSE IF res.tag = "InvalidControlResponse"
              THEN retries      \* sleep 100 ms; continue
              ELSE retries      \* no branch taken: back to the loop test
    ELSE 0                      \* retries = 0

\* lines 202-220: one turn of `while retries > 0`
get_status_loop ==
    /\ pc = "get_status_loop"
    /\ gs.retries > 0
    /\ \E reply \in DevGetStatus(dev) :
         /\ gs' = [gs EXCEPT !.retries = RetriesAfter(reply.res, gs.retries - 1),
                             !.status = reply.res,
                             !.reads = gs.reads + 1,
                             !.oks = gs.oks + (IF IsOk(reply.res) THEN 1 ELSE 0)]
         /\ dev' = reply.next
         /\ wire' = Issued(wire, DFU_GET_STATUS, "")
    /\ UNCHANGED <<pc, stack, ret, op, dfu, swf, a2i, aco, dd, ep, dr, vf, fr, ml, tx, cv>>

\* line 221: the loop is over, `status` is the result
get_status_return ==
    /\ pc = "get_status_loop"
    /\ gs.retries = 0
    /\ Return(gs.status)
    /\ UNCHANGED <<op, dev, dfu, gs, swf, a2i, aco, dd, ep, dr, vf, wire, fr, ml, tx, cv>>

(***************************************************************************)
(* Dfu::status_wait_for (core.rs 248-278)                                  *)
(***************************************************************************)
\* a wait that is for DfuDownloadBusy whatever state is given
WaitForStateBusy(wait_for_state) == "DfuDownloadBusy"

\* lines 254-258
WaitForState(wait_for_state) ==
    IF wait_for_state = "None" THEN "DfuDownloadBusy" ELSE wait_for_state

\* lines 253-259: retries += 1, the default target, the first get_status(10)
status_wait_for_enter ==
    /\ pc = "status_wait_for"
    /\ \E r \in U8AddOne(swf.retries) :
         IF r = Panic
         THEN /\ pc' = "panic"
              /\ UNCHANGED <<stack, ret, swf, gs>>
         ELSE /\ swf' = [swf EXCEPT !.retries = r,
                                    !.target = WaitForState(swf.target),
                                    !.polls = 1]
              /\ gs' = GsArgs(10)
              /\ Call("get_status", "status_wait_for_got")
    /\ UNCHANGED <<op, dev, dfu, a2i, aco, dd, ep, dr, vf, wire, fr, ml, tx, cv>>

\* a wait that checks the state only
WaitResultStateOnly(s, wait_for_state) ==
    IF s.state # U8FromState(wait_for_state)
    THEN ErrInvalidState(s, wait_for_state)
    ELSE OkStatus(s)

\* lines 270-277: the result for the last status read
WaitResult(s, wait_for_state) ==
    IF s.state # U8FromState(wait_for_state)
    THEN ErrInvalidState(s, wait_for_state)
    ELSE IF s.status # 0 THEN ErrInvalidStatus(s) ELSE OkStatus(s)

\* lines 259-277, from the return of a get_status(10) on: `?`, the loop test,
\* the break, then either the next get_status(10) or the final checks
\* (`s` is only read after the loop, so the frame keeps the last one)
Observed(frame, res) ==
    LET hit == IsOk(res) /\ res.st.state = U8FromState(frame.target)
    IN [frame EXCEPT !.hits = @ + (IF hit THEN 1 ELSE 0),
                     !.bad = @ + (IF hit /\ res.st.status # 0 THEN 1 ELSE 0),
                     !.failed = @ \/ ~IsOk(res)]

status_wait_for_got ==
    /\ pc = "status_wait_for_got"
    /\ IF ~IsOk(ret)
       THEN /\ swf' = Observed(swf, ret)
            /\ Return(ret)
            /\ UNCHANGED gs
       ELSE IF swf.retries > 0 /\ ret.st.state # U8FromState(swf.target)
       THEN /\ swf' = [Observed(swf, ret) EXCEPT !.retries = swf.retries - 1,
                                                 !.polls = swf.polls + 1]
            /\ gs' = GsArgs(10)
            /\ Call("get_status", "status_wait_for_got")
       ELSE /\ swf' = [Observed(swf, ret) EXCEPT !.s = ret.st]
            /\ Return(WaitResult(ret.st, swf.target))
            /\ UNCHANGED gs
    /\ UNCHANGED <<op, dev, dfu, a2i, aco, dd, ep, dr, vf, wire, fr, ml, tx, cv>>

(***************************************************************************)
(* Dfu::abort_to_idle (core.rs 494-509)                                    *)
(***************************************************************************)
\* an abort that takes any state for idle
AbortResultUnchecked(s) == Ok

\* lines 505-508
AbortResult(s) ==
    IF s.state # U8FromState("DfuIdle") THEN ErrInvalidState(s, "DfuIdle") ELSE Ok

\* lines 495-504: the ABORT transfer, then get_status(0)
abort_to_idle ==
    /\ pc = "abort_to_idle"
    /\ \E reply \in DevAbort(dev) :
         /\ dev' = reply.next
         /\ wire' = Issued([wire EXCEPT !.aborts = @ + 1], DFU_ABORT, "")
         /\ a2i' = [abort |-> reply.out, left |-> reply.next.state, status |-> Ok]
         /\ IF reply.out = "Ok"
            THEN /\ gs' = GsArgs(0)
                 /\ Call("get_status", "abort_to_idle_got")
            ELSE /\ Return(ErrUSB("Other"))
                 /\ UNCHANGED gs
    /\ UNCHANGED <<op, dfu, swf, aco, dd, ep, dr, vf, fr, ml, tx, cv>>

\* lines 504-508: `?`, then the state check
abort_to_idle_got ==
    /\ pc = "abort_to_idle_got"
    /\ a2i' = [a2i EXCEPT !.status = ret]
    /\ Return(IF ~IsOk(ret) THEN ret ELSE AbortResult(ret.st))
    /\ UNCHANGED <<op, dev, dfu, gs, swf, aco, dd, ep, dr, vf, wire, fr, ml, tx, cv>>

(***************************************************************************)
(* Dfu::abort_to_idle_clear_once (core.rs 467-492)                         *)
(***************************************************************************)
\* line 468
abort_to_idle_clear_once ==
    /\ pc = "abort_to_idle_clear_once"
    /\ aco' = [NoAco EXCEPT !.reads = 1]
    /\ gs' = GsArgs(0)
    /\ Call("get_status", "abort_to_idle_clear_once_first")
    /\ UNCHANGED <<op, dev, dfu, swf, a2i, dd, ep, dr, vf, wire, fr, ml, tx, cv>>

\* an engine that takes no status for idle
IsIdleNever(s) == FALSE

\* line 469: nothing to do when the device is idle already
IsIdle(s) == s.state = U8FromState("DfuIdle")

\* lines 468-483: `?`, return when idle, else the ABORT transfer and the
\* second get_status(0)
abort_to_idle_clear_once_first ==
    /\ pc = "abort_to_idle_clear_once_first"
    /\ IF ~IsOk(ret)
       THEN /\ aco' = [aco EXCEPT !.last = ret, !.seen = Append(@, ret)]
            /\ Return(ret)
            /\ UNCHANGED <<dev, gs, wire>>
       ELSE IF IsIdle(ret.st)
       THEN /\ aco' = [aco EXCEPT !.last = ret, !.seen = Append(@, ret)]
            /\ Return(Ok)
            /\ UNCHANGED <<dev, gs, wire>>
       ELSE \E reply \in DevAbort(dev) :
              /\ dev' = reply.next
              /\ wire' = Issued([wire EXCEPT !.aborts = @ + 1], DFU_ABORT, "")
              /\ IF reply.out = "Ok"
                 THEN /\ aco' = [aco EXCEPT !.last = ret, !.seen = Append(@, ret), !.reads = 2]
                      /\ gs' = GsArgs(0)
                      /\ Call("get_status", "abort_to_idle_clear_once_second")
                 ELSE /\ aco' = [aco EXCEPT !.last = ret, !.seen = Append(@, ret), !.failed = TRUE]
                      /\ Return(ErrUSB("Other"))
                      /\ UNCHANGED gs
    /\ UNCHANGED <<op, dfu, swf, a2i, dd, ep, dr, vf, fr, ml, tx, cv>>

\* an engine that never clears
NeedsClearNever(s) == FALSE

\* line 486: clear and read again in case of a wrong state
NeedsClear(s) == s.state # U8FromState("DfuIdle")

\* lines 483-491: `?`, then when the state is still wrong clear_status
\* (lines 224-234) and the third get_status(0)
abort_to_idle_clear_once_second ==
    /\ pc = "abort_to_idle_clear_once_second"
    /\ IF ~IsOk(ret)
       THEN /\ aco' = [aco EXCEPT !.last = ret, !.seen = Append(@, ret)]
            /\ Return(ret)
            /\ UNCHANGED <<dev, gs, wire>>
       ELSE IF NeedsClear(ret.st)
       THEN \E reply \in DevClrStatus(dev) :
              /\ dev' = reply.next
              /\ wire' = Issued([wire EXCEPT !.clears = @ + 1], DFU_CLRSTATUS, "")
              /\ IF reply.out = "Ok"
                 THEN /\ aco' = [aco EXCEPT !.last = ret, !.seen = Append(@, ret), !.reads = 3]
                      /\ gs' = GsArgs(0)
                      /\ Call("get_status", "abort_to_idle_clear_once_third")
                 ELSE /\ aco' = [aco EXCEPT !.last = ret, !.seen = Append(@, ret), !.failed = TRUE]
                      /\ Return(ErrUSB("Other"))
                      /\ UNCHANGED gs
       ELSE /\ aco' = [aco EXCEPT !.last = ret, !.seen = Append(@, ret)]
            /\ Return(Ok)
            /\ UNCHANGED <<dev, gs, wire>>
    /\ UNCHANGED <<op, dfu, swf, a2i, dd, ep, dr, vf, fr, ml, tx, cv>>

\* a third status that is checked as abort_to_idle checks its own
ClearedResultChecked(s) ==
    IF s.state # U8FromState("DfuIdle") THEN ErrInvalidState(s, "DfuIdle") ELSE Ok

\* lines 489-491: the third status is read and dropped
ClearedResult(s) == Ok

\* lines 489-491: `?`, then Ok
abort_to_idle_clear_once_third ==
    /\ pc = "abort_to_idle_clear_once_third"
    /\ aco' = [aco EXCEPT !.last = ret, !.seen = Append(@, ret)]
    /\ Return(IF ~IsOk(ret) THEN ret ELSE ClearedResult(ret.st))
    /\ UNCHANGED <<op, dev, dfu, gs, swf, a2i, dd, ep, dr, vf, wire, fr, ml, tx, cv>>

(***************************************************************************)
(* Dfu::dfuse_download (core.rs 552-577)                                   *)
(***************************************************************************)
\* the arguments of a call of dfuse_download
DdArgs(buf, transaction) == [NoDd EXCEPT !.buf = buf, !.transaction = transaction]

\* a control transfer as it is put on the wire
Transfer(request, value, buf) == [request |-> request, value |-> value, data |-> buf]

\* lines 553-576: the DNLOAD transfer; Ok, a stall (then abort_to_idle), or
\* another transfer error
dfuse_download ==
    /\ pc = "dfuse_download"
    /\ \E reply \in DevDnload(dev) :
         /\ dev' = reply.next
         /\ wire' = Issued([wire EXCEPT !.dnloads =
                               Append(@, Transfer(DFU_DNLOAD, dd.transaction, dd.buf))],
                           DFU_DNLOAD, reply.out)
         /\ dd' = [dd EXCEPT !.out = reply.out]
         /\ IF reply.out = "Ok" THEN Return(Ok)
            ELSE IF reply.out = "Stall" THEN Call("abort_to_idle", "dfuse_download_stalled")
            ELSE Return(ErrUSB("Other"))
    /\ UNCHANGED <<op, dfu, gs, swf, a2i, aco, ep, dr, vf, fr, ml, tx, cv>>

\* a stall handler that drops the result of abort_to_idle
StalledResultDropped(aborted) == Ok

\* lines 568-570: `self.abort_to_idle().await?`, the 10 ms sleep, Ok(())
StalledResult(aborted) == IF ~IsOk(aborted) THEN aborted ELSE Ok

dfuse_download_stalled ==
    /\ pc = "dfuse_download_stalled"
    /\ Return(StalledResult(ret))
    /\ UNCHANGED <<op, dev, dfu, gs, swf, a2i, aco, dd, ep, dr, vf, wire, fr, ml, tx, cv>>

(***************************************************************************)
(* Dfu::from_vid_pid / Dfu::from_bus_device (core.rs 171-197) with         *)
(* Dfu::setup (core.rs 131-169)                                            *)
(***************************************************************************)
\* what the host finds: no device matches the selector (`.expect` panics),
\* device.open() fails, claim_interface fails, the active configuration, the
\* alt setting, its string index or the DFU functional descriptor is missing,
\* the layout string does not parse, an `unwrap` in setup fails, or all is
\* there
Findings == {"no device", "open fails", "claim fails", "no configuration",
             "no alt setting", "no string index", "bad layout",
             "no dfu descriptor", "unwrap fails", "ok"}

\* lines 173-181 (187-195): the device lookup, open, setup, then
\* abort_to_idle_clear_once
from_vid_pid ==
    /\ pc = "from_vid_pid"
    /\ \E found \in Findings :
         /\ op' = [op EXCEPT !.found = found]
         /\ CASE found = "no device" ->
                   /\ pc' = "panic"
                   /\ UNCHANGED <<stack, ret>>
              [] found = "unwrap fails" ->
                   /\ pc' = "panic"
                   /\ UNCHANGED <<stack, ret>>
              [] found \in {"open fails", "claim fails"} ->
                   Return(ErrUSB("Other"))
              [] found \in {"no configuration", "no alt setting", "no string index",
                            "no dfu descriptor"} ->
                   Return(ErrDeviceNotFound)
              [] found = "bad layout" ->
                   Return(ErrMemoryLayout)
              [] OTHER ->
                   Call("abort_to_idle_clear_once", "from_vid_pid_got")
    /\ UNCHANGED <<dev, dfu, gs, swf, a2i, aco, dd, ep, dr, vf, wire, fr, ml, tx, cv>>

\* line 181-182 (195-196): `?`, then Ok(dfu)
from_vid_pid_got ==
    /\ pc = "from_vid_pid_got"
    /\ Return(IF ~IsOk(ret) THEN ret ELSE Ok)
    /\ UNCHANGED <<op, dev, dfu, gs, swf, a2i, aco, dd, ep, dr, vf, wire, fr, ml, tx, cv>>

(***************************************************************************)
(* Dfu::erase_pages (core.rs 357-371)                                      *)
(***************************************************************************)
\* the history of the frame after a status_wait_for returned to it
Seen(frame, wait) ==
    [frame EXCEPT !.seen = Append(@, IF wait.hits > 0 THEN wait.target ELSE "")]

\* an erase that stays on its page
SamePage(a, page) == a

\* line 368: `address += page.size`, page being the page of the caller's
\* address
NextPage(a, page) == a + page.size

\* line 358
erase_pages ==
    /\ pc = "erase_pages"
    /\ swf' = SwfArgs(0, "DfuIdle")
    /\ Call("status_wait_for", "erase_pages_idle")
    /\ UNCHANGED <<op, dev, dfu, gs, a2i, aco, dd, ep, dr, vf, wire, fr, ml, tx, cv>>

\* a range test that looks at the page of the address only
RangeErrorOfPage(n, p, a) == IF ~p.ok THEN ErrAddress(a) ELSE Ok

\* lines 358-359: the `?` on num_pages(address, length) = n and on
\* address(address) = p
RangeError(n, p, a) ==
    IF ~n.ok THEN ErrAddress(n.addr)
    ELSE IF ~p.ok THEN ErrAddress(a)
    ELSE Ok

\* lines 358-362: `?`, num_pages from the caller's address, the page of the
\* address, and the realignment to the beginning of that page
erase_pages_idle ==
    /\ pc = "erase_pages_idle"
    /\ LET n == num_pages(dfu.mem_layout, ep.address, ep.length)
           p == address(dfu.mem_layout, ep.address)
           e == RangeError(n, p, ep.address)
       IN IF ~IsOk(ret) THEN Return(ret) /\ UNCHANGED ep
          ELSE IF ~IsOk(e) THEN Return(e) /\ UNCHANGED ep
          ELSE /\ ep' = [Seen(ep, swf) EXCEPT !.pages = n.pages, !.page = p.page,
                                             !.address = p.page.address]
               /\ pc' = "erase_pages_loop"
               /\ UNCHANGED <<stack, ret>>
    /\ UNCHANGED <<op, dev, dfu, gs, swf, a2i, aco, dd, dr, vf, wire, fr, ml, tx, cv>>

\* lines 363-364 and 370: the loop test, the ErasePage command
erase_pages_loop ==
    /\ pc = "erase_pages_loop"
    /\ IF ep.pages > 0
       THEN /\ dd' = DdArgs(CmdBuf(VecFromDfuseCommand(ErasePage(ep.address))), 0)
            /\ Call("dfuse_download", "erase_pages_sent")
            /\ UNCHANGED ep
       ELSE /\ Return(Ok)
            /\ UNCHANGED <<dd, ep>>
    /\ UNCHANGED <<op, dev, dfu, gs, swf, a2i, aco, dr, vf, wire, fr, ml, tx, cv>>

\* lines 364-365
erase_pages_sent ==
    /\ pc = "erase_pages_sent"
    /\ IF ~IsOk(ret) THEN Return(ret) /\ UNCHANGED <<swf, ep>>
       ELSE /\ swf' = SwfArgs(0, "DfuDownloadBusy")
            /\ ep' = [ep EXCEPT !.seen = <<>>]
            /\ Call("status_wait_for", "erase_pages_busy")
    /\ UNCHANGED <<op, dev, dfu, gs, a2i, aco, dd, dr, vf, wire, fr, ml, tx, cv>>

\* lines 365-366
erase_pages_busy ==
    /\ pc = "erase_pages_busy"
    /\ IF ~IsOk(ret) THEN Return(ret) /\ UNCHANGED <<swf, ep>>
       ELSE /\ swf' = SwfArgs(100, "DfuDownloadIdle")
            /\ ep' = Seen(ep, swf)
            /\ Call("status_wait_for", "erase_pages_erased")
    /\ UNCHANGED <<op, dev, dfu, gs, a2i, aco, dd, dr, vf, wire, fr, ml, tx, cv>>

\* lines 366-368: `?`, one page less, on by the size of the first page
erase_pages_erased ==
    /\ pc = "erase_pages_erased"
    /\ IF ~IsOk(ret) THEN Return(ret) /\ UNCHANGED ep
       ELSE /\ ep' = [Seen(ep, swf) EXCEPT !.pages = ep.pages - 1,
                                          !.address = NextPage(ep.address, ep.page)]
            /\ pc' = "erase_pages_loop"
            /\ UNCHANGED <<stack, ret>>
    /\ UNCHANGED <<op, dev, dfu, gs, swf, a2i, aco, dd, dr, vf, wire, fr, ml, tx, cv>>

(***************************************************************************)
(* Dfu::download_raw (core.rs 513-550)                                     *)
(***************************************************************************)
\* line 519
download_raw ==
    /\ pc = "download_raw"
    /\ ep' = EpArgs(dr.address, dr.length)
    /\ Call("erase_pages", "download_raw_erased")
    /\ UNCHANGED <<op, dev, dfu, gs, swf, a2i, aco, dd, dr, vf, wire, fr, ml, tx, cv>>

\* lines 519-520
download_raw_erased ==
    /\ pc = "download_raw_erased"
    /\ IF ~IsOk(ret) THEN Return(ret) ELSE Call("abort_to_idle", "download_raw_aborted")
    /\ UNCHANGED <<op, dev, dfu, gs, swf, a2i, aco, dd, ep, dr, vf, wire, fr, ml, tx, cv>>

\* lines 520-521
download_raw_aborted ==
    /\ pc = "download_raw_aborted"
    /\ IF ~IsOk(ret) THEN Return(ret) /\ UNCHANGED swf
       ELSE /\ swf' = SwfArgs(0, "DfuIdle")
            /\ Call("status_wait_for", "download_raw_idle")
    /\ UNCHANGED <<op, dev, dfu, gs, a2i, aco, dd, ep, dr, vf, wire, fr, ml, tx, cv>>

\* lines 521-523: `?`, transaction = 2
download_raw_idle ==
    /\ pc = "download_raw_idle"
    /\ IF ~IsOk(ret) THEN Return(ret) /\ UNCHANGED dr
       ELSE /\ dr' = [Seen(dr, swf) EXCEPT !.transaction = 2]
            /\ pc' = "download_raw_loop"
            /\ UNCHANGED <<stack, ret>>
    /\ UNCHANGED <<op, dev, dfu, gs, swf, a2i, aco, dd, ep, vf, wire, fr, ml, tx, cv>>

\* a chunk that is always of the transfer size
NextXferFull(length, transfer_size) ==
    [xfer |-> transfer_size,
     length |-> IF length >= transfer_size THEN length - transfer_size ELSE 0]

\* lines 525-531: the size of the next chunk and the length left after it
NextXfer(length, transfer_size) ==
    IF length >= transfer_size
    THEN [xfer |-> transfer_size, length |-> length - transfer_size]
    ELSE [xfer |-> length, length |-> 0]

\* lines 524-541 and 548: the loop test, the size of the chunk, the read of
\* the chunk from the file, the SetAddress command; after the loop the ABORT
\* (the exploration ends after MaxChunks + 1 chunks)
download_raw_loop ==
    /\ pc = "download_raw_loop"
    /\ dr.transaction <= MaxChunks + 3
    /\ IF dr.length # 0
       THEN LET n == NextXfer(dr.length, dfu.transfer_size)
            IN IF dr.off + n.xfer > dr.flen
               THEN /\ dr' = [dr EXCEPT !.xfer = n.xfer, !.length = n.length]
                    /\ Return(ErrFileIO)
                    /\ UNCHANGED dd
               ELSE /\ dr' = [dr EXCEPT !.xfer = n.xfer, !.length = n.length,
                                        !.off = dr.off + n.xfer]
                    /\ dd' = DdArgs(CmdBuf(VecFromDfuseCommand(SetAddress(dr.address))), 0)
                    /\ Call("dfuse_download", "download_raw_addressed")
       ELSE /\ Call("abort_to_idle", "download_raw_end")
            /\ UNCHANGED <<dd, dr>>
    /\ UNCHANGED <<op, dev, dfu, gs, swf, a2i, aco, ep, vf, wire, fr, ml, tx, cv>>

\* lines 541-542
download_raw_addressed ==
    /\ pc = "download_raw_addressed"
    /\ IF ~IsOk(ret) THEN Return(ret) /\ UNCHANGED <<swf, dr>>
       ELSE /\ swf' = SwfArgs(100, "DfuDownloadIdle")
            /\ dr' = [dr EXCEPT !.seen = <<>>]
            /\ Call("status_wait_for", "download_raw_pointed")
    /\ UNCHANGED <<op, dev, dfu, gs, a2i, aco, dd, ep, vf, wire, fr, ml, tx, cv>>

\* lines 542-543: `?`, then the chunk with its transaction number
download_raw_pointed ==
    /\ pc = "download_raw_pointed"
    /\ IF ~IsOk(ret) THEN Return(ret) /\ UNCHANGED <<dd, dr>>
       ELSE /\ dd' = DdArgs(FileBuf(dr.off - dr.xfer, dr.xfer), dr.transaction)
            /\ dr' = Seen(dr, swf)
            /\ Call("dfuse_download", "download_raw_sent")
    /\ UNCHANGED <<op, dev, dfu, gs, swf, a2i, aco, ep, vf, wire, fr, ml, tx, cv>>

\* lines 543-544
download_raw_sent ==
    /\ pc = "download_raw_sent"
    /\ IF ~IsOk(ret) THEN Return(ret) /\ UNCHANGED <<swf, dr>>
       ELSE /\ swf' = SwfArgs(100, "DfuDownloadBusy")
            /\ dr' = [dr EXCEPT !.seen = <<>>]
            /\ Call("status_wait_for", "download_raw_busy")
    /\ UNCHANGED <<op, dev, dfu, gs, a2i, aco, dd, ep, vf, wire, fr, ml, tx, cv>>

\* lines 544-545
download_raw_busy ==
    /\ pc = "download_raw_busy"
    /\ IF ~IsOk(ret) THEN Return(ret) /\ UNCHANGED <<swf, dr>>
       ELSE /\ swf' = SwfArgs(100, "DfuDownloadIdle")
            /\ dr' = Seen(dr, swf)
            /\ Call("status_wait_for", "download_raw_written")
    /\ UNCHANGED <<op, dev, dfu, gs, a2i, aco, dd, ep, vf, wire, fr, ml, tx, cv>>

\* lines 545-546: `?`, transaction += 1 on a u16
download_raw_written ==
    /\ pc = "download_raw_written"
    /\ IF ~IsOk(ret) THEN Return(ret) /\ UNCHANGED dr
       ELSE \E n \in U16AddOne(dr.transaction) :
              IF n = Panic
              THEN /\ pc' = "panic"
                   /\ UNCHANGED <<stack, ret, dr>>
              ELSE /\ dr' = [Seen(dr, swf) EXCEPT !.transaction = n]
                   /\ pc' = "download_raw_loop"
                   /\ UNCHANGED <<stack, ret>>
    /\ UNCHANGED <<op, dev, dfu, gs, swf, a2i, aco, dd, ep, vf, wire, fr, ml, tx, cv>>

\* lines 548-549
download_raw_end ==
    /\ pc = "download_raw_end"
    /\ Return(IF ~IsOk(ret) THEN ret ELSE Ok)
    /\ UNCHANGED <<op, dev, dfu, gs, swf, a2i, aco, dd, ep, dr, vf, wire, fr, ml, tx, cv>>

(***************************************************************************)
(* struct Transaction (core.rs 27-72)                                      *)
(***************************************************************************)
\* a chunk that is always of the transfer size
set_xfer_full(t) ==
    [t EXCEPT !.xfer = t.xfer_max,
              !.pending = IF t.pending >= t.xfer_max THEN t.pending - t.xfer_max ELSE 0]

\* Transaction::set_xfer, lines 49-57
set_xfer(t) ==
    IF t.pending >= t.xfer_max
    THEN [t EXCEPT !.xfer = t.xfer_max, !.pending = t.pending - t.xfer_max]
    ELSE [t EXCEPT !.xfer = t.pending % t.xfer_max, !.pending = 0]

\* Transaction::new, lines 37-47
Transaction_new(a, pending, xfer_max) ==
    set_xfer([transaction |-> 2, address |-> a, pending |-> pending,
              xfer |-> xfer_max, xfer_max |-> xfer_max])

\* Iterator::next for Transaction, lines 60-72: the transactions it can leave
\* (NoTransaction for the panic of an overflowing `transaction += 1`)
next(t) ==
    IF t.pending = 0 THEN {[t EXCEPT !.xfer = 0]}
    ELSE {IF n = Panic THEN NoTransaction
          ELSE [set_xfer(t) EXCEPT !.address = t.address + set_xfer(t).xfer,
                                   !.transaction = n] :
            n \in U16AddOne(t.transaction)}

(***************************************************************************)
(* Dfu::verify (core.rs 321-354) with Dfu::flash_read_chunk (382-391) and  *)
(* Dfu::dfuse_upload (584-599)                                             *)
(***************************************************************************)
\* lines 337-345: the comparison of the bytes r of the file with the bytes v
\* of the device, from index i (0-based) on
RECURSIVE compare_from(_, _, _, _)
compare_from(v, r, i, a) ==
    IF i >= Len(r) THEN Ok
    ELSE IF i < Len(v) /\ r[i + 1] = v[i + 1] THEN compare_from(v, r, i + 1, a)
    ELSE ErrVerify(a + i)

\* lines 334-349: the closure of verify on the chunk v, with the file at
\* position off: the result and the position of the file afterwards
verify_chunk(v, file, off, a) ==
    IF off + Len(v) > Len(file)
    THEN [res |-> ErrFileIO, off |-> off]
    ELSE LET r == SubSeq(file, off + 1, off + Len(v))
             compared == compare_from(v, r, 0, a)
         IN [res |-> IF ~IsOk(compared) THEN compared
                     ELSE IF Len(v) # Len(r) THEN ErrVerify(a + Len(v))
                     ELSE Ok,
             off |-> off + Len(v)]

\* line 327
verify ==
    /\ pc = "verify"
    /\ dd' = DdArgs(CmdBuf(VecFromDfuseCommand(SetAddress(vf.address))), 0)
    /\ Call("dfuse_download", "verify_addressed")
    /\ UNCHANGED <<op, dev, dfu, gs, swf, a2i, aco, ep, dr, vf, wire, fr, ml, tx, cv>>

\* lines 327-328
verify_addressed ==
    /\ pc = "verify_addressed"
    /\ IF ~IsOk(ret) THEN Return(ret) /\ UNCHANGED swf
       ELSE /\ swf' = SwfArgs(0, "None")
            /\ Call("status_wait_for", "verify_busy")
    /\ UNCHANGED <<op, dev, dfu, gs, a2i, aco, dd, ep, dr, vf, wire, fr, ml, tx, cv>>

\* lines 328-329
verify_busy ==
    /\ pc = "verify_busy"
    /\ IF ~IsOk(ret) THEN Return(ret) ELSE Call("abort_to_idle", "verify_aborted")
    /\ UNCHANGED <<op, dev, dfu, gs, swf, a2i, aco, dd, ep, dr, vf, wire, fr, ml, tx, cv>>

\* lines 329-330
verify_aborted ==
    /\ pc = "verify_aborted"
    /\ IF ~IsOk(ret) THEN Return(ret) /\ UNCHANGED swf
       ELSE /\ swf' = SwfArgs(0, "DfuIdle")
            /\ Call("status_wait_for", "verify_idle")
    /\ UNCHANGED <<op, dev, dfu, gs, a2i, aco, dd, ep, dr, vf, wire, fr, ml, tx, cv>>

\* lines 330-331
verify_idle ==
    /\ pc = "verify_idle"
    /\ IF ~IsOk(ret) THEN Return(ret) /\ UNCHANGED vf
       ELSE /\ vf' = [vf EXCEPT !.t = Transaction_new(vf.address, vf.length,
                                                      dfu.transfer_size)]
            /\ pc' = "verify_loop"
            /\ UNCHANGED <<stack, ret>>
    /\ UNCHANGED <<op, dev, dfu, gs, swf, a2i, aco, dd, ep, dr, wire, fr, ml, tx, cv>>

\* lines 332-334 and 352: the loop test, `let address = t.address`, the call
\* of flash_read_chunk; after the loop the ABORT
verify_loop ==
    /\ pc = "verify_loop"
    /\ IF vf.t.xfer > 0
       THEN /\ vf' = [vf EXCEPT !.loop_address = vf.t.address]
            /\ Call("flash_read_chunk", "verify_read")
       ELSE /\ Call("abort_to_idle", "verify_end")
            /\ UNCHANGED vf
    /\ UNCHANGED <<op, dev, dfu, gs, swf, a2i, aco, dd, ep, dr, wire, fr, ml, tx, cv>>

\* flash_read_chunk, lines 387-390, for the closure of verify: the UPLOAD
\* transfer of dfuse_upload (585-598), the closure on what came, t.next()
flash_read_chunk ==
    /\ pc = "flash_read_chunk"
    /\ \E reply \in DevUpload(dev, vf.t.transaction, vf.t.xfer, dfu.transfer_size) :
         /\ dev' = reply.next
         /\ wire' = Issued([wire EXCEPT !.uploads =
                               Append(@, [request |-> DFU_UPLOAD,
                                          value |-> vf.t.transaction,
                                          length |-> vf.t.xfer])],
                           DFU_UPLOAD, "")
         /\ IF reply.out # "Ok"
            THEN /\ Return(ErrUSB("Other"))
                 /\ UNCHANGED vf
            ELSE LET f == verify_chunk(reply.data, vf.file, vf.off, vf.loop_address)
                 IN IF ~IsOk(f.res)
                    THEN /\ vf' = [vf EXCEPT !.off = f.off]
                         /\ Return(f.res)
                    ELSE \E t \in next(vf.t) :
                           IF t = NoTransaction
                           THEN /\ pc' = "panic"
                                /\ UNCHANGED <<stack, ret, vf>>
                           ELSE /\ vf' = [vf EXCEPT !.off = f.off, !.t = t]
                                /\ Return(Ok)
    /\ UNCHANGED <<op, dfu, gs, swf, a2i, aco, dd, ep, dr, fr, ml, tx, cv>>

\* line 350: `?` on what flash_read_chunk returned
verify_read ==
    /\ pc = "verify_read"
    /\ IF ~IsOk(ret) THEN Return(ret)
       ELSE /\ pc' = "verify_loop"
            /\ UNCHANGED <<stack, ret>>
    /\ UNCHANGED <<op, dev, dfu, gs, swf, a2i, aco, dd, ep, dr, vf, wire, fr, ml, tx, cv>>

\* lines 352-353
verify_end ==
    /\ pc = "verify_end"
    /\ Return(IF ~IsOk(ret) THEN ret ELSE Ok)
    /\ UNCHANGED <<op, dev, dfu, gs, swf, a2i, aco, dd, ep, dr, vf, wire, fr, ml, tx, cv>>

(***************************************************************************)
(* Dfu::set_address (core.rs 280-284)                                      *)
(***************************************************************************)
\* line 281
set_address ==
    /\ pc = "set_address"
    /\ dd' = DdArgs(CmdBuf(VecFromDfuseCommand(SetAddress(fr.address))), 0)
    /\ Call("dfuse_download", "set_address_sent")
    /\ UNCHANGED <<op, dev, dfu, gs, swf, a2i, aco, ep, dr, vf, wire, fr, ml, tx, cv>>

\* lines 281-282
set_address_sent ==
    /\ pc = "set_address_sent"
    /\ IF ~IsOk(ret) THEN Return(ret) /\ UNCHANGED swf
       ELSE /\ swf' = SwfArgs(0, "DfuDownloadIdle")
            /\ Call("status_wait_for", "set_address_end")
    /\ UNCHANGED <<op, dev, dfu, gs, a2i, aco, dd, ep, dr, vf, wire, fr, ml, tx, cv>>

\* lines 282-283
set_address_end ==
    /\ pc = "set_address_end"
    /\ Return(IF ~IsOk(ret) THEN ret ELSE Ok)
    /\ UNCHANGED <<op, dev, dfu, gs, swf, a2i, aco, dd, ep, dr, vf, wire, fr, ml, tx, cv>>

(***************************************************************************)
(* Dfu::reset_stm32 (core.rs 286-300)                                      *)
(***************************************************************************)
\* lines 289-292: the DNLOAD that makes the device leave DFU mode, no data
\* and transaction 2
LeaveRequestZero == DdArgs(CmdBuf(<<>>), 0)
LeaveRequest == DdArgs(CmdBuf(<<>>), 2)

\* line 288: set_address(address)
reset_stm32 ==
    /\ pc = "reset_stm32"
    /\ Call("set_address", "reset_stm32_set")
    /\ UNCHANGED <<op, dev, dfu, gs, swf, a2i, aco, dd, ep, dr, vf, wire, fr, ml, tx, cv>>

\* lines 288-292: `?`, then the empty DNLOAD with transaction 2
reset_stm32_set ==
    /\ pc = "reset_stm32_set"
    /\ IF ~IsOk(ret) THEN Return(ret) /\ UNCHANGED dd
       ELSE /\ dd' = LeaveRequest
            /\ Call("dfuse_download", "reset_stm32_left")
    /\ UNCHANGED <<op, dev, dfu, gs, swf, a2i, aco, ep, dr, vf, wire, fr, ml, tx, cv>>

\* lines 292-294: `?`, then get_status(0)
reset_stm32_left ==
    /\ pc = "reset_stm32_left"
    /\ IF ~IsOk(ret) THEN Return(ret) /\ UNCHANGED gs
       ELSE /\ gs' = GsArgs(0)
            /\ Call("get_status", "reset_stm32_end")
    /\ UNCHANGED <<op, dev, dfu, swf, a2i, aco, dd, ep, dr, vf, wire, fr, ml, tx, cv>>

\* a reset that hands on what get_status returned
ResetResultOfStatus(status) == status

\* lines 294-299: `unwrap_or_else` on what get_status returned, a default
\* status in place of an error, and Ok(()) at the end
ResetResult(status) == Ok

\* lines 294-299: whatever get_status returned, detached = true and Ok
reset_stm32_end ==
    /\ pc = "reset_stm32_end"
    /\ dfu' = [dfu EXCEPT !.detached = TRUE]
    /\ Return(ResetResult(ret))
    /\ UNCHANGED <<op, dev, gs, swf, a2i, aco, dd, ep, dr, vf, wire, fr, ml, tx, cv>>

(***************************************************************************)
(* Drop for Dfu (core.rs 111-128), when run_main is over                   *)
(***************************************************************************)
\* lines 113-116: nothing when detached, else status_wait_for(0, DfuIdle)
\* (the history of transfers starts anew; what the operation returned is
\* kept)
drop ==
    /\ pc = "done"
    /\ fr' = [fr EXCEPT !.result = ret]
    /\ wire' = NoWire
    /\ IF dfu.detached
       THEN /\ pc' = "dropped"
            /\ UNCHANGED <<stack, ret, swf>>
       ELSE /\ swf' = SwfArgs(0, "DfuIdle")
            /\ Call("status_wait_for", "drop_waited")
    /\ UNCHANGED <<op, dev, dfu, gs, a2i, aco, dd, ep, dr, vf, ml, tx, cv>>

\* a drop that aborts whatever the wait returned
DropAbortsAlways(waited) == TRUE

\* line 116: `.is_err()` on the result of the wait
DropAborts(waited) == ~IsOk(waited)

\* lines 116-118: abort_to_idle when the wait failed
drop_waited ==
    /\ pc = "drop_waited"
    /\ fr' = [fr EXCEPT !.waited = ret]
    /\ IF DropAborts(ret) THEN Call("abort_to_idle", "drop_aborted")
       ELSE /\ pc' = "dropped"
            /\ UNCHANGED <<stack, ret>>
    /\ UNCHANGED <<op, dev, dfu, gs, swf, a2i, aco, dd, ep, dr, vf, wire, ml, tx, cv>>

\* lines 118-120: a failure of abort_to_idle is logged only
drop_aborted ==
    /\ pc = "drop_aborted"
    /\ fr' = [fr EXCEPT !.aborted = ret]
    /\ pc' = "dropped"
    /\ UNCHANGED <<stack, ret, op, dev, dfu, gs, swf, a2i, aco, dd, ep, dr, vf, wire, ml, tx, cv>>

(***************************************************************************)
(* Dfu::mass_erase (core.rs 374-380)                                       *)
(***************************************************************************)
\* line 375
mass_erase ==
    /\ pc = "mass_erase"
    /\ swf' = SwfArgs(0, "DfuIdle")
    /\ Call("status_wait_for", "mass_erase_idle")
    /\ UNCHANGED <<op, dev, dfu, gs, a2i, aco, dd, ep, dr, vf, wire, fr, ml, tx, cv>>

\* lines 375-376
mass_erase_idle ==
    /\ pc = "mass_erase_idle"
    /\ IF ~IsOk(ret) THEN Return(ret) /\ UNCHANGED dd
       ELSE /\ dd' = DdArgs(CmdBuf(VecFromDfuseCommand(MassErase)), 0)
            /\ Call("dfuse_download", "mass_erase_sent")
    /\ UNCHANGED <<op, dev, dfu, gs, swf, a2i, aco, ep, dr, vf, wire, fr, ml, tx, cv>>

\* lines 376-377
mass_erase_sent ==
    /\ pc = "mass_erase_sent"
    /\ IF ~IsOk(ret) THEN Return(ret) /\ UNCHANGED swf
       ELSE /\ swf' = SwfArgs(0, "DfuDownloadBusy")
            /\ Call("status_wait_for", "mass_erase_busy")
    /\ UNCHANGED <<op, dev, dfu, gs, a2i, aco, dd, ep, dr, vf, wire, fr, ml, tx, cv>>

\* lines 377-378
mass_erase_busy ==
    /\ pc = "mass_erase_busy"
    /\ IF ~IsOk(ret) THEN Return(ret) /\ UNCHANGED swf
       ELSE /\ swf' = SwfArgs(10, "DfuDownloadIdle")
            /\ Call("status_wait_for", "mass_erase_end")
    /\ UNCHANGED <<op, dev, dfu, gs, a2i, aco, dd, ep, dr, vf, wire, fr, ml, tx, cv>>

\* lines 378-379
mass_erase_end ==
    /\ pc = "mass_erase_end"
    /\ Return(IF ~IsOk(ret) THEN ret ELSE Ok)
    /\ UNCHANGED <<op, dev, dfu, gs, swf, a2i, aco, dd, ep, dr, vf, wire, fr, ml, tx, cv>>

(***************************************************************************)
(* Dfu::upload (core.rs 454-465) with Dfu::flash_read_chunk (382-391) and  *)
(* Dfu::dfuse_upload (584-599)                                             *)
(***************************************************************************)
\* line 455
upload ==
    /\ pc = "upload"
    /\ dd' = DdArgs(CmdBuf(VecFromDfuseCommand(SetAddress(fr.address))), 0)
    /\ Call("dfuse_download", "upload_addressed")
    /\ UNCHANGED <<op, dev, dfu, gs, swf, a2i, aco, ep, dr, vf, wire, fr, ml, tx, cv>>

\* lines 455-456
upload_addressed ==
    /\ pc = "upload_addressed"
    /\ IF ~IsOk(ret) THEN Return(ret) /\ UNCHANGED swf
       ELSE /\ swf' = SwfArgs(0, "None")
            /\ Call("status_wait_for", "upload_busy")
    /\ UNCHANGED <<op, dev, dfu, gs, a2i, aco, dd, ep, dr, vf, wire, fr, ml, tx, cv>>

\* lines 456-457
upload_busy ==
    /\ pc = "upload_busy"
    /\ IF ~IsOk(ret) THEN Return(ret) /\ UNCHANGED fr
       ELSE /\ fr' = Seen(fr, swf)
            /\ Call("abort_to_idle", "upload_aborted")
    /\ UNCHANGED <<op, dev, dfu, gs, swf, a2i, aco, dd, ep, dr, vf, wire, ml, tx, cv>>

\* lines 457-458
upload_aborted ==
    /\ pc = "upload_aborted"
    /\ IF ~IsOk(ret) THEN Return(ret) /\ UNCHANGED swf
       ELSE /\ swf' = SwfArgs(0, "DfuIdle")
            /\ Call("status_wait_for", "upload_idle")
    /\ UNCHANGED <<op, dev, dfu, gs, a2i, aco, dd, ep, dr, vf, wire, fr, ml, tx, cv>>

\* lines 458-459
upload_idle ==
    /\ pc = "upload_idle"
    /\ IF ~IsOk(ret) THEN Return(ret) /\ UNCHANGED fr
       ELSE /\ fr' = [Seen(fr, swf) EXCEPT
                           !.t = Transaction_new(fr.address, fr.length, dfu.transfer_size)]
            /\ pc' = "upload_loop"
            /\ UNCHANGED <<stack, ret>>
    /\ UNCHANGED <<op, dev, dfu, gs, swf, a2i, aco, dd, ep, dr, vf, wire, ml, tx, cv>>

\* lines 460-461 and 463: the loop test, the call of flash_read_chunk; after
\* the loop the ABORT
upload_loop ==
    /\ pc = "upload_loop"
    /\ IF fr.t.xfer > 0 THEN Call("flash_read_chunk_to_file", "upload_read")
       ELSE Call("abort_to_idle", "upload_end")
    /\ UNCHANGED <<op, dev, dfu, gs, swf, a2i, aco, dd, ep, dr, vf, wire, fr, ml, tx, cv>>

\* flash_read_chunk, lines 387-390, for the closure of upload: the UPLOAD
\* transfer of dfuse_upload (585-598), file.write_all on what came, t.next()
flash_read_chunk_to_file ==
    /\ pc = "flash_read_chunk_to_file"
    /\ \E reply \in DevUpload(dev, fr.t.transaction, fr.t.xfer, dfu.transfer_size) :
         /\ dev' = reply.next
         /\ wire' = Issued([wire EXCEPT !.uploads =
                               Append(@, [request |-> DFU_UPLOAD,
                                          value |-> fr.t.transaction,
                                          length |-> fr.t.xfer])],
                           DFU_UPLOAD, "")
         /\ IF reply.out # "Ok"
            THEN /\ Return(ErrUSB("Other"))
                 /\ UNCHANGED fr
            ELSE IF fr.broken
            THEN /\ Return(ErrFileIO)
                 /\ UNCHANGED fr
            ELSE \E t \in next(fr.t) :
                   IF t = NoTransaction
                   THEN /\ pc' = "panic"
                        /\ UNCHANGED <<stack, ret, fr>>
                   ELSE /\ fr' = [fr EXCEPT !.file = fr.file \o reply.data, !.t = t]
                        /\ Return(Ok)
    /\ UNCHANGED <<op, dfu, gs, swf, a2i, aco, dd, ep, dr, vf, ml, tx, cv>>

\* line 461: `?` on what flash_read_chunk returned
upload_read ==
    /\ pc = "upload_read"
    /\ IF ~IsOk(ret) THEN Return(ret)
       ELSE /\ pc' = "upload_loop"
            /\ UNCHANGED <<stack, ret>>
    /\ UNCHANGED <<op, dev, dfu, gs, swf, a2i, aco, dd, ep, dr, vf, wire, fr, ml, tx, cv>>

\* lines 463-464
upload_end ==
    /\ pc = "upload_end"
    /\ Return(IF ~IsOk(ret) THEN ret ELSE Ok)
    /\ UNCHANGED <<op, dev, dfu, gs, swf, a2i, aco, dd, ep, dr, vf, wire, fr, ml, tx, cv>>

(***************************************************************************)
(* Dfu::write_flash_from_slice (core.rs 393-430), in the frame of          *)
(* download_raw: dr.length is `length`, dr.flen is buf.len()               *)
(***************************************************************************)
\* `buf.into()`, line 423: the whole slice as the Vec<u8> of a DNLOAD
SliceBuf(len) == [kind |-> "slice", bytes |-> <<>>, off |-> 0, len |-> len]

\* Ok(n) of a Result<usize, Error>: the usize is kept in addr
OkUsize(n) == Res("Ok", "", DefaultStatus, "", n)

\* lines 394-395: length = buf.len(), erase_pages(address, length)
write_flash_from_slice ==
    /\ pc = "write_flash_from_slice"
    /\ ep' = EpArgs(dr.address, dr.length)
    /\ Call("erase_pages", "write_flash_from_slice_erased")
    /\ UNCHANGED <<op, dev, dfu, gs, swf, a2i, aco, dd, dr, vf, wire, fr, ml, tx, cv>>

\* lines 395-396
write_flash_from_slice_erased ==
    /\ pc = "write_flash_from_slice_erased"
    /\ IF ~IsOk(ret) THEN Return(ret)
       ELSE Call("abort_to_idle", "write_flash_from_slice_aborted")
    /\ UNCHANGED <<op, dev, dfu, gs, swf, a2i, aco, dd, ep, dr, vf, wire, fr, ml, tx, cv>>

\* lines 396-397
write_flash_from_slice_aborted ==
    /\ pc = "write_flash_from_slice_aborted"
    /\ IF ~IsOk(ret) THEN Return(ret) /\ UNCHANGED swf
       ELSE /\ swf' = SwfArgs(0, "DfuIdle")
            /\ Call("status_wait_for", "write_flash_from_slice_idle")
    /\ UNCHANGED <<op, dev, dfu, gs, a2i, aco, dd, ep, dr, vf, wire, fr, ml, tx, cv>>

\* lines 397-405: `?`, transaction = 2, and the panic! on a slice that is
\* not shorter than the transfer size
write_flash_from_slice_idle ==
    /\ pc = "write_flash_from_slice_idle"
    /\ IF ~IsOk(ret) THEN Return(ret) /\ UNCHANGED dr
       ELSE IF dr.length >= dfu.transfer_size
       THEN /\ pc' = "panic"
            /\ dr' = [dr EXCEPT !.transaction = 2]
            /\ UNCHANGED <<stack, ret>>
       ELSE /\ dr' = [dr EXCEPT !.transaction = 2]
            /\ pc' = "write_flash_from_slice_loop"
            /\ UNCHANGED <<stack, ret>>
    /\ UNCHANGED <<op, dev, dfu, gs, swf, a2i, aco, dd, ep, vf, wire, fr, ml, tx, cv>>

\* lines 406-421 and 428: the loop test, the size of the chunk, the
\* SetAddress command; after the loop the ABORT
write_flash_from_slice_loop ==
    /\ pc = "write_flash_from_slice_loop"
    /\ IF dr.length # 0
       THEN LET n == NextXfer(dr.length, dfu.transfer_size)
            IN /\ dr' = [dr EXCEPT !.xfer = n.xfer, !.length = n.length]
               /\ dd' = DdArgs(CmdBuf(VecFromDfuseCommand(SetAddress(dr.address))), 0)
               /\ Call("dfuse_download", "write_flash_from_slice_addressed")
       ELSE /\ Call("abort_to_idle", "write_flash_from_slice_end")
            /\ UNCHANGED <<dd, dr>>
    /\ UNCHANGED <<op, dev, dfu, gs, swf, a2i, aco, ep, vf, wire, fr, ml, tx, cv>>

\* lines 421-422
write_flash_from_slice_addressed ==
    /\ pc = "write_flash_from_slice_addressed"
    /\ IF ~IsOk(ret) THEN Return(ret) /\ UNCHANGED swf
       ELSE /\ swf' = SwfArgs(100, "DfuDownloadIdle")
            /\ Call("status_wait_for", "write_flash_from_slice_pointed")
    /\ UNCHANGED <<op, dev, dfu, gs, a2i, aco, dd, ep, dr, vf, wire, fr, ml, tx, cv>>

\* lines 422-423: `?`, then the whole slice with the transaction number
write_flash_from_slice_pointed ==
    /\ pc = "write_flash_from_slice_pointed"
    /\ IF ~IsOk(ret) THEN Return(ret) /\ UNCHANGED dd
       ELSE /\ dd' = DdArgs(SliceBuf(dr.flen), dr.transaction)
            /\ Call("dfuse_download", "write_flash_from_slice_sent")
    /\ UNCHANGED <<op, dev, dfu, gs, swf, a2i, aco, ep, dr, vf, wire, fr, ml, tx, cv>>

\* lines 423-424
write_flash_from_slice_sent ==
    /\ pc = "write_flash_from_slice_sent"
    /\ IF ~IsOk(ret) THEN Return(ret) /\ UNCHANGED swf
       ELSE /\ swf' = SwfArgs(100, "DfuDownloadBusy")
            /\ Call("status_wait_for", "write_flash_from_slice_busy")
    /\ UNCHANGED <<op, dev, dfu, gs, a2i, aco, dd, ep, dr, vf, wire, fr, ml, tx, cv>>

\* lines 424-425
write_flash_from_slice_busy ==
    /\ pc = "write_flash_from_slice_busy"
    /\ IF ~IsOk(ret) THEN Return(ret) /\ UNCHANGED swf
       ELSE /\ swf' = SwfArgs(100, "DfuDownloadIdle")
            /\ Call("status_wait_for", "write_flash_from_slice_written")
    /\ UNCHANGED <<op, dev, dfu, gs, a2i, aco, dd, ep, dr, vf, wire, fr, ml, tx, cv>>

\* lines 425-426: `?`, transaction += 1 on a u16
write_flash_from_slice_written ==
    /\ pc = "write_flash_from_slice_written"
    /\ IF ~IsOk(ret) THEN Return(ret) /\ UNCHANGED dr
       ELSE \E n \in U16AddOne(dr.transaction) :
              IF n = Panic
              THEN /\ pc' = "panic"
                   /\ UNCHANGED <<stack, ret, dr>>
              ELSE /\ dr' = [dr EXCEPT !.transaction = n]
                   /\ pc' = "write_flash_from_slice_loop"
                   /\ UNCHANGED <<stack, ret>>
    /\ UNCHANGED <<op, dev, dfu, gs, swf, a2i, aco, dd, ep, vf, wire, fr, ml, tx, cv>>

\* line 429: `Ok(length as usize)`, of the `length` that the loop has
\* counted down
SliceResult(frame) == OkUsize(frame.length)

\* lines 428-429
write_flash_from_slice_end ==
    /\ pc = "write_flash_from_slice_end"
    /\ Return(IF ~IsOk(ret) THEN ret ELSE SliceResult(dr))
    /\ UNCHANGED <<op, dev, dfu, gs, swf, a2i, aco, dd, ep, dr, vf, wire, fr, ml, tx, cv>>

(***************************************************************************)
(* The callers of the public functions.                                    *)
(***************************************************************************)
call_get_status ==
    /\ pc = "idle"
    /\ \E r \in RetriesArgs :
         /\ op' = [NoOp EXCEPT !.name = "get_status", !.retries = r]
         /\ gs' = GsArgs(r)
    /\ pc' = "get_status"
    /\ UNCHANGED <<stack, ret, dev, dfu, swf, a2i, aco, dd, ep, dr, vf, wire, fr, ml, tx, cv>>

call_status_wait_for ==
    /\ pc = "idle"
    /\ \E r \in RetriesArgs, t \in TargetArgs :
         /\ op' = [NoOp EXCEPT !.name = "status_wait_for", !.retries = r, !.target = t]
         /\ swf' = SwfArgs(r, t)
    /\ pc' = "status_wait_for"
    /\ UNCHANGED <<stack, ret, dev, dfu, gs, a2i, aco, dd, ep, dr, vf, wire, fr, ml, tx, cv>>

call_abort_to_idle_clear_once ==
    /\ pc = "idle"
    /\ op' = [NoOp EXCEPT !.name = "abort_to_idle_clear_once"]
    /\ pc' = "abort_to_idle_clear_once"
    /\ UNCHANGED <<stack, ret, dev, dfu, gs, swf, a2i, aco, dd, ep, dr, vf, wire, fr, ml, tx, cv>>

\* run_main, lines 267-271: from_vid_pid or from_bus_device
call_from_vid_pid ==
    /\ pc = "idle"
    /\ op' = [NoOp EXCEPT !.name = "from_vid_pid"]
    /\ pc' = "from_vid_pid"
    /\ UNCHANGED <<stack, ret, dev, dfu, gs, swf, a2i, aco, dd, ep, dr, vf, wire, fr, ml, tx, cv>>

\* the buffers and transaction numbers tried for a direct call
DownloadArgs == {<<CmdBuf(VecFromDfuseCommand(SetAddress(FlashBase))), 0>>,
                 <<CmdBuf(VecFromDfuseCommand(ErasePage(FlashBase))), 0>>,
                 <<CmdBuf(VecFromDfuseCommand(MassErase)), 0>>,
                 <<FileBuf(0, K), 2>>,
                 <<CmdBuf(<<>>), 2>>}

call_dfuse_download ==
    /\ pc = "idle"
    /\ \E a \in DownloadArgs : dd' = DdArgs(a[1], a[2])
    /\ op' = [NoOp EXCEPT !.name = "dfuse_download"]
    /\ pc' = "dfuse_download"
    /\ UNCHANGED <<stack, ret, dev, dfu, gs, swf, a2i, aco, ep, dr, vf, wire, fr, ml, tx, cv>>

\* the addresses and lengths tried for a download: page bases and
\* addresses inside a page; lengths of up to MaxChunks transfers, whole and
\* not
DownloadAddresses == {FlashBase + n * (K \div 2) : n \in 0 .. 4}
DownloadLengths == {0, 1} \cup {n * (K \div 2) : n \in 1 .. 2 * MaxChunks}

\* run_main, lines 294-298: download_raw on a file of flen bytes, of which
\* the first `length` are to be written
call_download_raw ==
    /\ pc = "idle"
    /\ \E a \in DownloadAddresses, l \in DownloadLengths : \E flen \in {l, K} :
         /\ dr' = [NoDr EXCEPT !.address = a, !.length = l, !.flen = flen]
         /\ op' = [NoOp EXCEPT !.name = "download_raw", !.address = a, !.length = l]
    /\ pc' = "download_raw"
    /\ UNCHANGED <<stack, ret, dev, dfu, gs, swf, a2i, aco, dd, ep, vf, wire, fr, ml, tx, cv>>

\* the lengths of the slices tried: empty, shorter than the transfer size,
\* of the transfer size and longer
SliceLengths == {0, 1, K \div 2, K - 1, K, K + 1, 2 * K}

\* write_flash_from_slice(address, buf) for a slice of flen bytes
call_write_flash_from_slice ==
    /\ pc = "idle"
    /\ \E a \in DownloadAddresses, flen \in SliceLengths :
         /\ dr' = [NoDr EXCEPT !.address = a, !.length = flen, !.flen = flen]
         /\ op' = [NoOp EXCEPT !.name = "write_flash_from_slice", !.address = a,
                               !.length = flen]
    /\ pc' = "write_flash_from_slice"
    /\ UNCHANGED <<stack, ret, dev, dfu, gs, swf, a2i, aco, dd, ep, vf, wire, fr, ml, tx, cv>>

\* the files tried for a verify: byte i of the file is i mod 256
FileOf(n) == [i \in 1 .. n |-> (i - 1) % 256]
\* what the device holds: the file, but for the bytes at the offsets in `bad`
FlashOf(n, bad) == [i \in 1 .. n |-> IF (i - 1) \in bad THEN (i + 16) % 256
                                      ELSE (i - 1) % 256]

\* no, one or two offsets below n
Differences(n) == {{i, j} \cap (0 .. n - 1) : i, j \in 0 .. n}

\* run_main, lines 299-304: verify of a file of `length` bytes against a
\* device that holds `length` bytes from the address on
call_verify ==
    /\ pc = "idle"
    /\ \E l \in 0 .. MaxChunks * MaxXfer : \E bad \in Differences(l) :
         /\ vf' = [NoVf EXCEPT !.address = FlashBase, !.length = l, !.file = FileOf(l)]
         /\ dev' = [dev EXCEPT !.flash = FlashOf(l, bad)]
         /\ op' = [NoOp EXCEPT !.name = "verify", !.address = FlashBase, !.length = l]
    /\ pc' = "verify"
    /\ UNCHANGED <<stack, ret, dfu, gs, swf, a2i, aco, dd, ep, dr, wire, fr, ml, tx, cv>>

\* verify of a file of `length` bytes against a device whose memory holds
\* the bytes of the file but ends at `held` bytes from the address on (what
\* it uploads from there on is short or empty)
call_verify_short ==
    /\ pc = "idle"
    /\ \E l \in 0 .. MaxChunks * MaxXfer : \E held \in 0 .. l :
         /\ vf' = [NoVf EXCEPT !.address = FlashBase, !.length = l, !.file = FileOf(l)]
         /\ dev' = [dev EXCEPT !.flash = FlashOf(held, {})]
         /\ op' = [NoOp EXCEPT !.name = "verify", !.address = FlashBase, !.length = l]
    /\ pc' = "verify"
    /\ UNCHANGED <<stack, ret, dfu, gs, swf, a2i, aco, dd, ep, dr, wire, fr, ml, tx, cv>>

\* the addresses tried for a reset: the base of the flash and the application
\* behind a bootloader
ResetAddresses == {FlashBase, FlashBase + 16 * K}

\* run_main, line 284: Action::Reset
call_reset_stm32 ==
    /\ pc = "idle"
    /\ \E a \in ResetAddresses :
         /\ fr' = [NoFr EXCEPT !.address = a]
         /\ op' = [NoOp EXCEPT !.name = "reset_stm32", !.address = a]
    /\ pc' = "reset_stm32"
    /\ UNCHANGED <<stack, ret, dev, dfu, gs, swf, a2i, aco, dd, ep, dr, vf, wire, ml, tx, cv>>

\* run_main, line 284: Action::Reset, on a device of which nothing is
\* assumed
call_reset_stm32_any ==
    /\ pc = "idle"
    /\ \E a \in ResetAddresses :
         /\ fr' = [NoFr EXCEPT !.address = a]
         /\ op' = [NoOp EXCEPT !.name = "reset_stm32", !.address = a]
    /\ dev' = AnyDevice
    /\ pc' = "reset_stm32"
    /\ UNCHANGED <<stack, ret, dfu, gs, swf, a2i, aco, dd, ep, dr, vf, wire, ml, tx, cv>>

\* run_main, line 318: Action::SetAddress
call_set_address ==
    /\ pc = "idle"
    /\ \E a \in DownloadAddresses :
         /\ fr' = [NoFr EXCEPT !.address = a]
         /\ op' = [NoOp EXCEPT !.name = "set_address", !.address = a]
    /\ pc' = "set_address"
    /\ UNCHANGED <<stack, ret, dev, dfu, gs, swf, a2i, aco, dd, ep, dr, vf, wire, ml, tx, cv>>

\* run_main, line 306: Action::EraseAll
call_mass_erase ==
    /\ pc = "idle"
    /\ op' = [NoOp EXCEPT !.name = "mass_erase"]
    /\ pc' = "mass_erase"
    /\ UNCHANGED <<stack, ret, dev, dfu, gs, swf, a2i, aco, dd, ep, dr, vf, wire, fr, ml, tx, cv>>

\* the second field of the erase argument start:N: the lengths of a
\* download, a small number, and a length that takes three pages of
\* different sizes
EraseLengths == DownloadLengths \cup {2, 4 * K}

\* run_main, line 307: Action::Erase, the fields of the argument start:N
\* (main.rs 92-97) going to erase_pages as its address and its length
call_erase_pages ==
    /\ pc = "idle"
    /\ \E a \in DownloadAddresses, l \in EraseLengths :
         /\ ep' = EpArgs(a, l)
         /\ op' = [NoOp EXCEPT !.name = "erase_pages", !.address = a, !.length = l]
    /\ pc' = "erase_pages"
    /\ UNCHANGED <<stack, ret, dev, dfu, gs, swf, a2i, aco, dd, dr, vf, wire, fr, ml, tx, cv>>

\* the lengths tried for an upload: nothing, a byte, a whole transfer and a
\* byte more
UploadLengths == {0, 1} \cup {n * dfu.transfer_size + b : n \in 1 .. 2, b \in {0, 1}}

\* run_main, lines 285-293: Action::Read, into a file that takes the bytes
\* or fails on write_all
call_upload ==
    /\ pc = "idle"
    /\ \E l \in UploadLengths, broken \in BOOLEAN :
         /\ fr' = [NoFr EXCEPT !.address = FlashBase, !.length = l, !.broken = broken]
         /\ dev' = [dev EXCEPT !.flash = FileOf(l)]
         /\ op' = [NoOp EXCEPT !.name = "upload", !.address = FlashBase, !.length = l]
    /\ pc' = "upload"
    /\ UNCHANGED <<stack, ret, dfu, gs, swf, a2i, aco, dd, ep, dr, vf, wire, ml, tx, cv>>
(***************************************************************************)
(* The layout strings given to MemoryLayout::from_str and the questions    *)
(* put to the layout.  A string comes with what it was written from: the   *)
(* base address and, for each region, the count, the size and the unit.    *)
(***************************************************************************)
Name == <<"@", "F">>
AddressFields ==
    {[s |-> <<"0", "x", "0", "8", "0", "1", "0", "0", "0", "0">>, base |-> FlashBase],
     [s |-> <<"0", "8", "0", "1", "0", "0", "0", "0">>, base |-> FlashBase]}
Counts == {[s |-> <<"0", "1">>, n |-> 1], [s |-> <<"0", "2">>, n |-> 2]}
Sizes == {[s |-> <<"0", "1">>, n |-> 1], [s |-> <<"1", "6">>, n |-> 16],
          [s |-> <<"4", "1", "9", "4", "3", "0", "4">>, n |-> 4194304]}
UnitSuffixes == {<<"K">>, <<"K", "g">>, <<"M">>, <<"G">>, <<>>}

Region(c, z, u) ==
    [s |-> c.s \o <<"*">> \o z.s \o u, count |-> c.n, size |-> z.n, unit |-> u]
Regions == {Region(c, z, u) : c \in Counts, z \in Sizes, u \in UnitSuffixes}
RegionLists == {<<r>> : r \in Regions} \cup {<<r, q>> : r \in Regions, q \in Regions}

\* the bytes of a size unit, 0 for a suffix that is none
Factor(u) == IF u = <<>> THEN 0
             ELSE IF u[1] = "K" THEN 1024
             ELSE IF u[1] = "M" THEN 1024 * 1024
             ELSE 0

\* whether the size of the region in bytes is a u32
Fits(r) == Factor(r.unit) = 0 \/ r.size <= (2^30 \div Factor(r.unit)) * 4 - 1

RECURSIVE Joined(_)
Joined(rs) == IF Len(rs) = 1 THEN rs[1].s ELSE rs[1].s \o <<",">> \o Joined(Tail(rs))

LayoutInput(a, rs) ==
    [s |-> Name \o <<"/">> \o a.s \o <<"/">> \o Joined(rs),
     base |-> a.base,
     regions |-> [i \in 1 .. Len(rs) |-> [count |-> rs[i].count, size |-> rs[i].size,
                                          unit |-> rs[i].unit]],
     kind |-> IF \E i \in 1 .. Len(rs) : Factor(rs[i].unit) = 0 THEN "unit" ELSE "ok"]

\* strings with all their fields, without the address field and without the
\* region list
LayoutInputs ==
    {LayoutInput(a, rs) : a \in AddressFields, rs \in RegionLists}
    \cup {[s |-> Name, base |-> 0, regions |-> <<>>, kind |-> "no address"]}
    \cup {[s |-> Name \o <<"/">> \o a.s, base |-> a.base, regions |-> <<>>,
           kind |-> "no regions"] : a \in AddressFields}

\* Dfu::setup, core.rs 147-151: the layout string of the alt setting is
\* parsed
call_from_str ==
    /\ pc = "idle"
    /\ \E input \in LayoutInputs : \E r \in from_str(input.s) :
         /\ op' = [NoOp EXCEPT !.name = "from_str"]
         /\ ml' = [NoMl EXCEPT !.input = input]
         /\ IF r.out = "panic"
            THEN /\ pc' = "panic"
                 /\ UNCHANGED <<stack, ret, dfu>>
            ELSE IF r.out = "MemoryLayout"
            THEN /\ Return(ErrMemoryLayout)
                 /\ UNCHANGED dfu
            ELSE /\ dfu' = [dfu EXCEPT !.mem_layout = r.pages]
                 /\ pc' = "parsed"
                 /\ UNCHANGED <<stack, ret>>
    /\ UNCHANGED <<dev, gs, swf, a2i, aco, dd, ep, dr, vf, wire, fr, tx, cv>>

\* the addresses asked for: below the first page, and the first, the last
\* and the one after the last of every page
QueryAddresses(pages) ==
    {FlashBase - 1}
    \cup UNION {{p.address, p.address + p.size - 1, p.address + p.size} :
                p \in {pages[i] : i \in 1 .. Len(pages)}}

\* erase_pages, core.rs 360: MemoryLayout::address
call_address ==
    /\ pc = "parsed"
    /\ \E a \in QueryAddresses(dfu.mem_layout) :
         ml' = [ml EXCEPT !.a = a, !.page = address(dfu.mem_layout, a)]
    /\ pc' = "addressed"
    /\ UNCHANGED <<stack, ret, op, dev, dfu, gs, swf, a2i, aco, dd, ep, dr, vf, wire, fr, tx, cv>>

\* the lengths asked for: none, a byte, a page, a byte more, and one byte
\* more than there is from the start on
QueryLengths(pages, start) ==
    {0, 1}
    \cup UNION {{p.size, p.size + 1} : p \in {pages[i] : i \in 1 .. Len(pages)}}
    \cup {pages[Len(pages)].address + pages[Len(pages)].size - start + 1}

\* erase_pages, core.rs 359: MemoryLayout::num_pages from the base of a page
call_num_pages ==
    /\ pc = "parsed"
    /\ \E i \in 1 .. Len(dfu.mem_layout) :
         LET start == dfu.mem_layout[i].address
         IN \E length \in QueryLengths(dfu.mem_layout, start) :
              ml' = [ml EXCEPT !.start = start, !.length = length,
                               !.pages = num_pages(dfu.mem_layout, start, length)]
    /\ pc' = "counted"
    /\ UNCHANGED <<stack, ret, op, dev, dfu, gs, swf, a2i, aco, dd, ep, dr, vf, wire, fr, tx, cv>>

(***************************************************************************)
(* A loop on a Transaction, as in upload, verify and read_flash_to_slice   *)
(* (core.rs 459-462): `while t.xfer > 0 { chunk; t.next(); }`              *)
(***************************************************************************)
\* the lengths tried: up to MaxChunks transfers and a byte, and one that
\* takes more chunks than a u16 counts
TransactionLengths == 0 .. MaxChunks * MaxXfer + 1 \cup {U16Max}

\* line 459: Transaction::new
call_Transaction_new ==
    /\ pc = "idle"
    /\ \E length \in TransactionLengths, xfer_max \in 1 .. MaxXfer :
         tx' = [NoTx EXCEPT !.t = Transaction_new(FlashBase, length, xfer_max),
                            !.length = length, !.xfer_max = xfer_max]
    /\ op' = [NoOp EXCEPT !.name = "Transaction"]
    /\ pc' = "transaction_loop"
    /\ UNCHANGED <<stack, ret, dev, dfu, gs, swf, a2i, aco, dd, ep, dr, vf, wire, fr, ml, cv>>

\* lines 460-462 with 390: the loop test, the chunk, then t.next()
transaction_loop ==
    /\ pc = "transaction_loop"
    /\ IF tx.t.xfer > 0
       THEN \E t \in next(tx.t) :
              IF t = NoTransaction
              THEN /\ pc' = "panic"
                   /\ UNCHANGED <<stack, ret, tx>>
              ELSE /\ tx' = [tx EXCEPT !.t = t,
                                       !.chunks = @ + 1,
                                       !.sum = @ + tx.t.xfer,
                                       !.chunk = [xfer |-> tx.t.xfer,
                                                  transaction |-> tx.t.transaction]]
                   /\ UNCHANGED <<pc, stack, ret>>
       ELSE /\ Return(Ok)
            /\ UNCHANGED tx
    /\ UNCHANGED <<op, dev, dfu, gs, swf, a2i, aco, dd, ep, dr, vf, wire, fr, ml, cv>>

(***************************************************************************)
(* The conversions on their own: each is given a value from a bounded set. *)
(***************************************************************************)
\* the addresses encoded: the ones of the tests (dfuse_command.rs 79, 87),
\* and ones that tell the four bytes apart, up to the largest integer of the
\* model (2^31 - 1)
EncodeAddresses == {0, 1, 255, 256, 65536, 135266304, 135266816, 305419896,
                    2147483647}
Commands ==
    {SetAddress(a) : a \in EncodeAddresses}
        \cup {ErasePage(a) : a \in EncodeAddresses}
        \cup {MassErase, ReadUnprotected}

\* Vec::from(command), as in dfuse_download's callers (core.rs 281, 364, 376)
call_Vec_from ==
    /\ pc = "idle"
    /\ \E command \in Commands :
         cv' = [NoCv EXCEPT !.fn = "Vec::from", !.command = command,
                            !.vec = VecFromDfuseCommand(command)]
    /\ pc' = "converted"
    /\ UNCHANGED <<stack, ret, op, dev, dfu, gs, swf, a2i, aco, dd, ep, dr, vf, wire, fr,
                   ml, tx>>

\* DfuseCommand::try_from(b) on a byte
call_try_from ==
    /\ pc = "idle"
    /\ \E b \in 0 .. U8Max :
         cv' = [NoCv EXCEPT !.fn = "DfuseCommand::try_from", !.byte = b,
                            !.decoded = try_from(b)]
    /\ pc' = "converted"
    /\ UNCHANGED <<stack, ret, op, dev, dfu, gs, swf, a2i, aco, dd, ep, dr, vf, wire, fr,
                   ml, tx>>

\* u8::from(&state), as in status_wait_for (core.rs 261, 270)
call_u8_from ==
    /\ pc = "idle"
    /\ \E s \in State :
         cv' = [NoCv EXCEPT !.fn = "u8::from", !.state = s, !.byte = U8FromState(s)]
    /\ pc' = "encoded"
    /\ UNCHANGED <<stack, ret, op, dev, dfu, gs, swf, a2i, aco, dd, ep, dr, vf, wire, fr,
                   ml, tx>>

\* State::from(byte) on the byte u8::from gave
call_State_from_u8 ==
    /\ pc = "encoded"
    /\ cv' = [cv EXCEPT !.fn = "State::from(u8::from)", !.back = StateFromU8(cv.byte)]
    /\ pc' = "converted"
    /\ UNCHANGED <<stack, ret, op, dev, dfu, gs, swf, a2i, aco, dd, ep, dr, vf, wire, fr,
                   ml, tx>>

\* State::from(byte) on a byte of a status (status.rs 91)
call_State_from ==
    /\ pc = "idle"
    /\ \E b \in 0 .. U8Max :
         cv' = [NoCv EXCEPT !.fn = "State::from", !.byte = b, !.back = StateFromU8(b)]
    /\ pc' = "converted"
    /\ UNCHANGED <<stack, ret, op, dev, dfu, gs, swf, a2i, aco, dd, ep, dr, vf, wire, fr,
                   ml, tx>>

\* the replies to DFU_GET_STATUS tried: up to MaxReply bytes (one more than
\* the 6 of the buffer of status.rs 100), each one of ReplyBytes
MaxReply == 7
ReplyBytes == {0, 2, U8Max}
Replies == UNION {[1 .. n -> ReplyBytes] : n \in 0 .. MaxReply}

\* Status::get with the reply `data`
call_Status_get ==
    /\ pc = "idle"
    /\ \E data \in Replies :
         cv' = [NoCv EXCEPT !.fn = "Status::get", !.data = data,
                            !.status = Status_get(data)]
    /\ pc' = "converted"
    /\ UNCHANGED <<stack, ret, op, dev, dfu, gs, swf, a2i, aco, dd, ep, dr, vf, wire, fr,
                   ml, tx>>

\* the results of run_main: Ok, and each variant of Error with some fields
Errors ==
    {ErrDeviceNotFound, ErrArgument, ErrInvalidControlResponse, ErrFileIO,
     ErrMemoryLayout}
        \cup {ErrUSB(k) : k \in UsbErrorKinds}
        \cup {ErrInvalidState(Status(0, b), s) : b \in {2, 10}, s \in {"DfuIdle", "DfuDownloadIdle"}}
        \cup {ErrInvalidStatus(Status(b, 10)) : b \in {1, 10}}
        \cup {ErrUnknownCommandByte(b) : b \in {0, 66, U8Max}}
        \cup {ErrAddress(a) : a \in {0, FlashBase}}
        \cup {ErrVerify(a) : a \in {0, FlashBase}}

\* main.rs 345-351: the exit code of the process for the result of run_main
call_main ==
    /\ pc = "idle"
    /\ \E r \in Errors \cup {Ok} :
         cv' = [NoCv EXCEPT !.fn = "main", !.res = r, !.code = ExitCode(r)]
    /\ pc' = "converted"
    /\ UNCHANGED <<stack, ret, op, dev, dfu, gs, swf, a2i, aco, dd, ep, dr, vf, wire, fr,
                   ml, tx>>

(***************************************************************************)
(* get_status and status_wait_for against any device.                      *)
(***************************************************************************)
InitStatus == InitWith({AnyDevice}, {Dfu(K, PagesFrom(<<>>, FlashBase, <<<<1, 16 * K>>>>))})

NextStatus ==
    \/ call_get_status
    \/ call_status_wait_for
    \/ get_status_enter
    \/ get_status_loop
    \/ get_status_return
    \/ status_wait_for_enter
    \/ status_wait_for_got

SpecStatus == InitStatus /\ [][NextStatus]_vars

(***************************************************************************)
(* Opening the engine, and abort_to_idle_clear_once on its own, against    *)
(* any device and against the devices that follow the protocol.            *)
(***************************************************************************)
InitOpen ==
    InitWith(SpecDevices \cup {AnyDevice},
             {Dfu(K, PagesFrom(<<>>, FlashBase, <<<<1, 16 * K>>>>))})

abort_to_idle_clear_once_steps ==
    \/ abort_to_idle_clear_once
    \/ abort_to_idle_clear_once_first
    \/ abort_to_idle_clear_once_second
    \/ abort_to_idle_clear_once_third

get_status_steps ==
    \/ get_status_enter
    \/ get_status_loop
    \/ get_status_return

NextOpen ==
    \/ call_from_vid_pid
    \/ call_abort_to_idle_clear_once
    \/ from_vid_pid
    \/ from_vid_pid_got
    \/ abort_to_idle_clear_once_steps
    \/ get_status_steps

SpecOpen == InitOpen /\ [][NextOpen]_vars

(***************************************************************************)
(* dfuse_download on its own.                                              *)
(***************************************************************************)
InitStall == InitOpen

NextStall ==
    \/ call_dfuse_download
    \/ dfuse_download
    \/ dfuse_download_stalled
    \/ abort_to_idle
    \/ abort_to_idle_got
    \/ get_status_steps

SpecStall == InitStall /\ [][NextStall]_vars

(***************************************************************************)
(* download_raw against a device that follows the protocol and is found    *)
(* in DfuIdle, as the open leaves it.                                      *)
(***************************************************************************)
IdleDevice == [mode |-> "spec", state |-> DevIdle, busy |-> 0, flash |-> <<>>]

InitDownload == InitWith({IdleDevice}, {Dfu(K, l) : l \in Layouts})

erase_pages_steps ==
    \/ erase_pages
    \/ erase_pages_idle
    \/ erase_pages_loop
    \/ erase_pages_sent
    \/ erase_pages_busy
    \/ erase_pages_erased

download_raw_steps ==
    \/ download_raw
    \/ download_raw_erased
    \/ download_raw_aborted
    \/ download_raw_idle
    \/ download_raw_loop
    \/ download_raw_addressed
    \/ download_raw_pointed
    \/ download_raw_sent
    \/ download_raw_busy
    \/ download_raw_written
    \/ download_raw_end

status_wait_for_steps ==
    \/ status_wait_for_enter
    \/ status_wait_for_got

dfuse_download_steps ==
    \/ dfuse_download
    \/ dfuse_download_stalled

abort_to_idle_steps ==
    \/ abort_to_idle
    \/ abort_to_idle_got

NextDownload ==
    \/ call_download_raw
    \/ download_raw_steps
    \/ erase_pages_steps
    \/ dfuse_download_steps
    \/ abort_to_idle_steps
    \/ status_wait_for_steps
    \/ get_status_steps

SpecDownload == InitDownload /\ [][NextDownload]_vars

(***************************************************************************)
(* verify against a device that follows the protocol and is found in       *)
(* DfuIdle, with small transfer sizes.                                     *)
(***************************************************************************)
InitVerify ==
    InitWith({IdleDevice},
             {Dfu(x, PagesFrom(<<>>, FlashBase, <<<<1, 16 * K>>>>)) : x \in 1 .. MaxXfer})

verify_steps ==
    \/ verify
    \/ verify_addressed
    \/ verify_busy
    \/ verify_aborted
    \/ verify_idle
    \/ verify_loop
    \/ flash_read_chunk
    \/ verify_read
    \/ verify_end

NextVerify ==
    \/ call_verify
    \/ verify_steps
    \/ dfuse_download_steps
    \/ abort_to_idle_steps
    \/ status_wait_for_steps
    \/ get_status_steps

SpecVerify == InitVerify /\ [][NextVerify]_vars

(***************************************************************************)
(* reset_stm32 and the drop of the engine, against a device that follows   *)
(* the protocol and against an arbitrary one.                              *)
(***************************************************************************)
InitReset == InitWith({IdleDevice, AnyDevice}, {Dfu(K, PagesFrom(<<>>, FlashBase, <<<<1, 16 * K>>>>))})

set_address_steps ==
    \/ set_address
    \/ set_address_sent
    \/ set_address_end

reset_stm32_steps ==
    \/ reset_stm32
    \/ reset_stm32_set
    \/ reset_stm32_left
    \/ reset_stm32_end

drop_steps ==
    \/ drop
    \/ drop_waited
    \/ drop_aborted

NextReset ==
    \/ call_reset_stm32
    \/ reset_stm32_steps
    \/ set_address_steps
    \/ drop_steps
    \/ dfuse_download_steps
    \/ abort_to_idle_steps
    \/ status_wait_for_steps
    \/ get_status_steps

SpecReset == InitReset /\ [][NextReset]_vars

(***************************************************************************)
(* download_raw on an engine whose device advertises a transfer size of 0, *)
(* against a device that follows the protocol.                             *)
(***************************************************************************)
InitZeroTransfer == InitWith({IdleDevice}, {Dfu(0, l) : l \in Layouts})

SpecZeroTransfer == InitZeroTransfer /\ [][NextDownload]_vars

(***************************************************************************)
(* Every operation of the engine that writes to or reads from the device,  *)
(* against a device that follows the protocol and is found in DfuIdle.     *)
(***************************************************************************)
InitEngine == InitWith({IdleDevice}, {Dfu(K, l) : l \in Layouts})

mass_erase_steps ==
    \/ mass_erase
    \/ mass_erase_idle
    \/ mass_erase_sent
    \/ mass_erase_busy
    \/ mass_erase_end

upload_steps ==
    \/ upload
    \/ upload_addressed
    \/ upload_busy
    \/ upload_aborted
    \/ upload_idle
    \/ upload_loop
    \/ flash_read_chunk_to_file
    \/ upload_read
    \/ upload_end

NextEngine ==
    \/ call_erase_pages
    \/ call_mass_erase
    \/ call_download_raw
    \/ call_upload
    \/ call_verify
    \/ call_set_address
    \/ call_reset_stm32
    \/ erase_pages_steps
    \/ mass_erase_steps
    \/ download_raw_steps
    \/ upload_steps
    \/ verify_steps
    \/ set_address_steps
    \/ reset_stm32_steps
    \/ dfuse_download_steps
    \/ abort_to_idle_steps
    \/ status_wait_for_steps
    \/ get_status_steps

SpecEngine == InitEngine /\ [][NextEngine]_vars

(***************************************************************************)
(* MemoryLayout: from_str on layout strings, then address and num_pages on *)
(* the layout parsed.                                                      *)
(***************************************************************************)
InitLayout == InitWith({IdleDevice}, {Dfu(K, <<>>)})

NextLayout ==
    \/ call_from_str
    \/ call_address
    \/ call_num_pages

SpecLayout == InitLayout /\ [][NextLayout]_vars

(***************************************************************************)
(* The Transaction iterator on its own.                                    *)
(***************************************************************************)
InitTransaction == InitWith({IdleDevice}, {Dfu(K, <<>>)})

NextTransaction ==
    \/ call_Transaction_new
    \/ transaction_loop

SpecTransaction == InitTransaction /\ [][NextTransaction]_vars

(***************************************************************************)
(* The conversions between values and bytes, and the exit code.            *)
(***************************************************************************)
InitConversions == InitWith({IdleDevice}, {Dfu(K, <<>>)})

NextConversions ==
    \/ call_Vec_from
    \/ call_try_from
    \/ call_u8_from
    \/ call_State_from_u8
    \/ call_State_from
    \/ call_Status_get
    \/ call_main

SpecConversions == InitConversions /\ [][NextConversions]_vars

(***************************************************************************)
(* verify with every small transfer size, 0 included, against a device     *)
(* that follows the protocol and whose UPLOAD replies may be short.        *)
(***************************************************************************)
InitVerifyShort ==
    InitWith({IdleDevice},
             {Dfu(x, PagesFrom(<<>>, FlashBase, <<<<1, 16 * K>>>>)) : x \in 0 .. MaxXfer})

NextVerifyShort ==
    \/ call_verify_short
    \/ verify_steps
    \/ dfuse_download_steps
    \/ abort_to_idle_steps
    \/ status_wait_for_steps
    \/ get_status_steps

SpecVerifyShort == InitVerifyShort /\ [][NextVerifyShort]_vars

(***************************************************************************)
(* The life of an engine in run_main: one operation, then its drop,        *)
(* against a device that follows the protocol and is found in DfuIdle;     *)
(* reset_stm32, the one operation that writes the detached flag, against   *)
(* an arbitrary device too.                                                *)
(***************************************************************************)
InitLifetime == InitWith({IdleDevice}, {Dfu(K, PagesFrom(<<>>, FlashBase, <<<<3, K>>>>))})

NextLifetime ==
    \/ NextEngine
    \/ call_reset_stm32_any
    \/ drop_steps

SpecLifetime == InitLifetime /\ [][NextLifetime]_vars

(***************************************************************************)
(* write_flash_from_slice against a device that follows the protocol and   *)
(* is found in DfuIdle.                                                    *)
(***************************************************************************)
write_flash_from_slice_steps ==
    \/ write_flash_from_slice
    \/ write_flash_from_slice_erased
    \/ write_flash_from_slice_aborted
    \/ write_flash_from_slice_idle
    \/ write_flash_from_slice_loop
    \/ write_flash_from_slice_addressed
    \/ write_flash_from_slice_pointed
    \/ write_flash_from_slice_sent
    \/ write_flash_from_slice_busy
    \/ write_flash_from_slice_written
    \/ write_flash_from_slice_end

NextSlice ==
    \/ call_write_flash_from_slice
    \/ write_flash_from_slice_steps
    \/ erase_pages_steps
    \/ dfuse_download_steps
    \/ abort_to_idle_steps
    \/ status_wait_for_steps
    \/ get_status_steps

SpecSlice == InitDownload /\ [][NextSlice]_vars

(***************************************************************************)
(* Claims about get_status and status_wait_for (SpecStatus).               *)
(***************************************************************************)
Returned(name) == pc = "done" /\ op.name = name

\* the awaited state of the call under way, from its argument
AwaitedState == IF op.target = "None" THEN "DfuDownloadBusy" ELSE op.target

\* C4 as claimed: status_wait_for fails with InvalidState exactly when no
\* status read of the call reported the awaited state.
C4_InvalidStateIffNeverReported ==
    Returned("status_wait_for") =>
        (ret.tag = "InvalidState" <=> swf.hits = 0)

\* C4, amended: status_wait_for returns Ok(s) only with s.state the awaited
\* state (DfuDownloadBusy when none is given) and s.status = 0; a failed
\* get_status call ends it with that call's error; otherwise it fails with
\* InvalidState(s, target) exactly when no read reported the awaited state and
\* with InvalidStatus(s, 0) exactly when a read reported it with a nonzero
\* status; and it stops polling at the first read that reports the awaited
\* state.
C4_WaitResult ==
    op.name = "status_wait_for" =>
        /\ swf.hits > 0 => pc = "done"
        /\ pc = "done" =>
            /\ IsOk(ret) => /\ ret.st.state = U8FromState(AwaitedState)
                            /\ ret.st.status = 0
            /\ swf.failed <=> ret.tag \in {"USB", "InvalidControlResponse"}
            /\ ret.tag = "InvalidState" <=> (~swf.failed /\ swf.hits = 0)
            /\ ret.tag = "InvalidState" =>
                 /\ ret.exp = AwaitedState
                 /\ ret.st.state # U8FromState(AwaitedState)
            /\ ret.tag = "InvalidStatus" <=> swf.bad > 0
            /\ ret.tag = "InvalidStatus" =>
                 /\ ret.st.state = U8FromState(AwaitedState)
                 /\ ret.st.status # 0
            /\ ret.tag \in {"Ok", "InvalidState", "InvalidStatus", "USB",
                            "InvalidControlResponse"}

\* a wait with no target given that succeeds at its second read
C4_Witness ==
    /\ Returned("status_wait_for")
    /\ op.target = "None"
    /\ IsOk(ret)
    /\ swf.polls = 2

\* C5 as claimed: status_wait_for(retries, target) makes at most retries+1
\* get_status(10) calls before it returns.
C5_AtMostRetriesPlusOnePolls ==
    Returned("status_wait_for") => swf.polls <= op.retries + 1

\* C6 as claimed: get_status(retries) performs at least one and at most
\* retries+1 Status reads, returns the first successful read, and when every
\* read failed the error of the last read.
C6_ReadsBetweenOneAndRetriesPlusOne ==
    Returned("get_status") =>
        /\ gs.reads >= 1
        /\ gs.reads <= op.retries + 1
        /\ ret = gs.status
        /\ IsOk(ret) <=> gs.oks = 1
        /\ gs.oks <= 1

\* C7 as claimed: after a Status read that failed with a USB error other than
\* BrokenPipe, get_status reads no more: its loop is over.
C7_OtherErrorEndsLoop ==
    (pc = "get_status_loop" /\ gs.reads > 0
        /\ gs.status.tag = "USB" /\ gs.status.kind # "BrokenPipe")
    => gs.retries = 0
C9_OpenLeavesDfuIdle ==
    (Returned("from_vid_pid") /\ IsOk(ret) /\ dev.mode = "spec") =>
        dev.state = DevIdle

\* an open that needed the ABORT and the CLR_STATUS
C9_Witness ==
    /\ Returned("from_vid_pid")
    /\ IsOk(ret)
    /\ dev.mode = "spec"
    /\ wire.aborts = 1
    /\ wire.clears = 1
    /\ aco.reads = 3

\* C10: abort_to_idle_clear_once never returns InvalidState or
\* InvalidStatus, and when every transfer it issued completed it returns Ok
\* whatever state its last status read reported.
C10_ReturnsRegardless ==
    Returned("abort_to_idle_clear_once") =>
        /\ ret.tag \notin {"InvalidState", "InvalidStatus"}
        /\ (IsOk(aco.last) /\ ~aco.failed) => ret = Ok
        /\ IsOk(ret) => (IsOk(aco.last) /\ ~aco.failed)

\* Ok after ABORT and CLR_STATUS with a third read that still reports
\* another state than DfuIdle
C10_Witness ==
    /\ Returned("abort_to_idle_clear_once")
    /\ ret = Ok
    /\ aco.reads = 3
    /\ wire.clears = 1
    /\ IsOk(aco.last)
    /\ aco.last.st.state # U8FromState("DfuIdle")

(***************************************************************************)
(* Claims about download_raw and erase_pages (SpecDownload).               *)
(***************************************************************************)
\* the DNLOAD transfers that carry an ErasePage command, and its address
IsErasePage(t) ==
    /\ t.value = 0
    /\ t.data.kind = "cmd"
    /\ Len(t.data.bytes) = 5
    /\ t.data.bytes[1] = 65
AddressIn(bytes) ==
    bytes[2] + 256 * bytes[3] + 65536 * bytes[4] + 16777216 * bytes[5]

\* the index of the first DNLOAD that carries data of the file (beyond the
\* log when there is none)
FirstData ==
    LET at == {i \in 1 .. Len(wire.dnloads) : wire.dnloads[i].data.kind = "file"}
    IN IF at = {} THEN Len(wire.dnloads) + 1
       ELSE CHOOSE i \in at : \A j \in at : i <= j

\* the addresses of the ErasePage commands sent before the first data
ErasedBeforeData ==
    {AddressIn(wire.dnloads[i].data.bytes) :
        i \in {j \in 1 .. FirstData - 1 : IsErasePage(wire.dnloads[j])}}

\* C1 as claimed: when a download of length > 0 succeeds, every page of the
\* layout that intersects [address, address+length) was the target of an
\* ErasePage command before the first data chunk was sent.
C1_EveryIntersectingPageErased ==
    (Returned("download_raw") /\ IsOk(ret) /\ op.length > 0) =>
        \A i \in 1 .. Len(dfu.mem_layout) :
            LET p == dfu.mem_layout[i]
            IN (p.address < op.address + op.length /\ op.address < p.address + p.size)
               => \E e \in ErasedBeforeData : e >= p.address /\ e < p.address + p.size

\* the DNLOAD transfers of the write loop
Written == SelectSeq(wire.dnloads, LAMBDA t : ~IsErasePage(t))

\* the number of chunks and the size of chunk k of a download
Chunks(length, transfer_size) == (length + transfer_size - 1) \div transfer_size
ChunkSize(length, transfer_size, k) ==
    IF length - k * transfer_size >= transfer_size THEN transfer_size
    ELSE length - k * transfer_size

\* C2 as claimed: chunk k of a download is announced by SetAddress(A + k*X)
\* with transaction 0 and sent with transaction counter 2+k.
C2_SetAddressAdvances ==
    (Returned("download_raw") /\ IsOk(ret)) =>
        /\ Len(Written) = 2 * Chunks(op.length, dfu.transfer_size)
        /\ \A k \in 0 .. Chunks(op.length, dfu.transfer_size) - 1 :
            /\ Written[2 * k + 1] =
                 Transfer(DFU_DNLOAD, 0,
                          CmdBuf(VecFromDfuseCommand(
                                   SetAddress(op.address + k * dfu.transfer_size))))
            /\ Written[2 * k + 2].value = 2 + k

\* C2, amended: every chunk k of a download is announced by SetAddress(A),
\* the start address of the download, with transaction 0, and then sent
\* with transaction counter 2+k, carrying the bytes of the file from k*X on
\* (X of them, or the rest in the last chunk); a download that succeeds has
\* sent all ceil(L/X) chunks, after the ErasePage commands.
C2_SetAddressOfStart ==
    op.name = "download_raw" =>
        /\ \A j \in 1 .. Len(Written) :
             LET k == (j - 1) \div 2
             IN IF j % 2 = 1
                THEN Written[j] =
                       Transfer(DFU_DNLOAD, 0,
                                CmdBuf(VecFromDfuseCommand(SetAddress(op.address))))
                ELSE Written[j] =
                       Transfer(DFU_DNLOAD, 2 + k,
                                FileBuf(k * dfu.transfer_size,
                                        ChunkSize(op.length, dfu.transfer_size, k)))
        /\ \A i \in 1 .. Len(wire.dnloads) :
             IsErasePage(wire.dnloads[i]) => i < FirstData
        /\ (Returned("download_raw") /\ IsOk(ret)) =>
             Len(Written) = 2 * Chunks(op.length, dfu.transfer_size)

\* the download of 3072 bytes at 0x08010000 into a 16K page with transfer
\* size 1024: one ErasePage, then three times SetAddress(0x08010000) and a
\* chunk, with counters 2, 3, 4
C2_Witness ==
    /\ Returned("download_raw")
    /\ IsOk(ret)
    /\ dfu = Dfu(K, PagesFrom(<<>>, FlashBase, <<<<1, 16 * K>>>>))
    /\ op.address = FlashBase
    /\ op.length = 3 * K
    /\ wire.dnloads =
         <<Transfer(DFU_DNLOAD, 0, CmdBuf(<<65, 0, 0, 1, 8>>)),
           Transfer(DFU_DNLOAD, 0, CmdBuf(<<33, 0, 0, 1, 8>>)),
           Transfer(DFU_DNLOAD, 2, FileBuf(0, K)),
           Transfer(DFU_DNLOAD, 0, CmdBuf(<<33, 0, 0, 1, 8>>)),
           Transfer(DFU_DNLOAD, 3, FileBuf(K, K)),
           Transfer(DFU_DNLOAD, 0, CmdBuf(<<33, 0, 0, 1, 8>>)),
           Transfer(DFU_DNLOAD, 4, FileBuf(2 * K, K))>>

(***************************************************************************)
(* Claims about verify (SpecVerify).                                       *)
(***************************************************************************)
\* the offsets, from the start of the verified range, at which the device
\* and the file differ
Differing == {i \in 0 .. op.length - 1 : dev.flash[i + 1] # vf.file[i + 1]}

\* C3 as claimed: when verify returns Verify(a), a is the start address plus
\* the offset of the first byte that differs between device and file.
C3_VerifyNamesFirstDifference ==
    (Returned("verify") /\ ret.tag = "Verify") =>
        /\ Differing # {}
        /\ \A i \in Differing :
             (\A j \in Differing : i <= j) => ret.addr = op.address + i

(***************************************************************************)
(* C11: reset_stm32 and the drop after it                                  *)
(***************************************************************************)
\* the bRequest of the transfers issued so far, in order (a run of
\* GET_STATUS once)
Requests == [i \in 1 .. Len(wire.requests) |-> wire.requests[i].request]

\* the entries of the history that are DNLOAD transfers that stalled
StalledAt == {i \in 1 .. Len(wire.requests) :
                 /\ wire.requests[i].request = DFU_DNLOAD
                 /\ wire.requests[i].out = "Stall"}

ResetReturnedOk == Returned("reset_stm32") /\ IsOk(ret)

\* the two DNLOAD transfers of reset_stm32(op.address)
ResetDownloads ==
    <<Transfer(DFU_DNLOAD, 0, CmdBuf(VecFromDfuseCommand(SetAddress(op.address)))),
      Transfer(DFU_DNLOAD, 2, CmdBuf(<<>>))>>

\* C11 as claimed: a reset_stm32(a) that returns Ok has issued exactly the
\* SetAddress(a) DNLOAD with transaction 0, status polls, the empty DNLOAD
\* with transaction 2 and one GET_STATUS, in this order, and has set
\* detached; the drop of the engine after it issues no transfer.
C11_ResetSequence ==
    /\ ResetReturnedOk =>
         /\ dfu.detached
         /\ wire.dnloads = ResetDownloads
         /\ Requests = <<DFU_DNLOAD, DFU_GET_STATUS, DFU_DNLOAD, DFU_GET_STATUS>>
         /\ ~wire.requests[4].again
    /\ (pc = "dropped" /\ op.name = "reset_stm32" /\ IsOk(fr.result)) => wire = NoWire

\* C11 amended: the sequence is the claimed one when no DNLOAD stalls; a
\* DNLOAD that stalls is followed by an ABORT and a GET_STATUS
\* (abort_to_idle) before reset_stm32 goes on, and there are no other
\* transfers. A reset_stm32(a) that returns Ok has issued the two DNLOADs,
\* ends with a GET_STATUS (exactly one unless the empty DNLOAD stalled, then
\* two), and has set detached; the drop after it issues no transfer.
C11_ResetSequenceUnlessStalled ==
    /\ ResetReturnedOk =>
         /\ dfu.detached
         /\ wire.dnloads = ResetDownloads
         /\ StalledAt = {} =>
              /\ Requests = <<DFU_DNLOAD, DFU_GET_STATUS, DFU_DNLOAD, DFU_GET_STATUS>>
              /\ ~wire.requests[4].again
         /\ \A i \in 1 .. Len(Requests) :
              /\ Requests[i] \in {DFU_DNLOAD, DFU_GET_STATUS, DFU_ABORT}
              /\ Requests[i] = DFU_ABORT => i - 1 \in StalledAt
              /\ i \in StalledAt => /\ i + 1 < Len(Requests)
                                    /\ Requests[i + 1] = DFU_ABORT
                                    /\ Requests[i + 2] = DFU_GET_STATUS
         /\ Requests[1] = DFU_DNLOAD
         /\ Requests[Len(Requests)] = DFU_GET_STATUS
         /\ wire.requests[Len(Requests)].again <=> Len(Requests) - 2 \in StalledAt
    /\ (pc = "dropped" /\ op.name = "reset_stm32" /\ IsOk(fr.result)) => wire = NoWire

\* a reset_stm32 that returned Ok against a device that follows the
\* protocol, and the engine dropped after it
C11_Witness ==
    /\ pc = "dropped"
    /\ op.name = "reset_stm32"
    /\ IsOk(fr.result)
    /\ dfu.detached
    /\ dev.mode = "spec"

(***************************************************************************)
(* C12: termination of the engine operations                               *)
(***************************************************************************)
\* C12 as claimed, for download_raw: the loop is bounded whatever the
\* advertised transfer size. Every chunk of a bounded download carries at
\* least one of the `length` bytes, so at no point have more chunks been
\* counted than there are bytes to write.
C12_DownloadLoopBounded ==
    (op.name = "download_raw" /\ dr.transaction >= 2) => dr.transaction - 2 <= op.length

(***************************************************************************)
(* C13, C14: the order of the commands of the engine's operations          *)
(***************************************************************************)
\* the positions to which a status_wait_for of an operation returns
AfterWait == {"erase_pages_idle", "erase_pages_busy", "erase_pages_erased",
              "mass_erase_idle", "mass_erase_busy", "mass_erase_end",
              "download_raw_idle", "download_raw_pointed", "download_raw_busy",
              "download_raw_written", "upload_busy", "upload_idle",
              "verify_busy", "verify_idle", "set_address_end"}

\* C13: against a device that follows the transition table and starts in
\* DfuIdle, every DNLOAD is issued while the device is in DfuIdle or
\* DfuDownloadIdle, every UPLOAD while it is in DfuIdle or DfuUploadIdle,
\* and a status_wait_for none of whose reads reported the awaited state
\* returns InvalidState.
C13_CommandsFromAcceptingStates ==
    /\ pc = "dfuse_download" => dev.state \in {DevIdle, DevDnIdle}
    /\ pc \in {"flash_read_chunk", "flash_read_chunk_to_file"} =>
           dev.state \in {DevIdle, DevUpIdle}
    /\ (pc \in AfterWait /\ swf.hits = 0) => ret.tag = "InvalidState"

\* the second chunk of a download about to be sent to a device that has
\* finished the SetAddress before it
C13_Witness ==
    /\ pc = "dfuse_download"
    /\ op.name = "download_raw"
    /\ dd.transaction = 3
    /\ dev.state = DevDnIdle

\* C14 as claimed: each DNLOAD is followed by a GET_STATUS before any other
\* request, on the stall path of dfuse_download too.
C14_StatusAfterEveryDownload ==
    \A i \in 1 .. Len(Requests) - 1 :
        Requests[i] = DFU_DNLOAD => Requests[i + 1] = DFU_GET_STATUS

\* C14 amended: each DNLOAD that did not stall is followed by a GET_STATUS
\* before any other request, and by at least one before the operation
\* returns; a DNLOAD that stalled is followed by an ABORT and then a
\* GET_STATUS; and nothing follows a DNLOAD that failed otherwise.
C14_StatusAfterDownloadOrAbort ==
    \A i \in 1 .. Len(Requests) :
        Requests[i] = DFU_DNLOAD =>
            /\ wire.requests[i].out = "Ok" =>
                   /\ i < Len(Requests) => Requests[i + 1] = DFU_GET_STATUS
                   /\ pc = "done" => i < Len(Requests)
            /\ wire.requests[i].out = "Stall" =>
                   /\ i < Len(Requests) => Requests[i + 1] = DFU_ABORT
                   /\ i + 1 < Len(Requests) => Requests[i + 2] = DFU_GET_STATUS
                   /\ pc = "done" => i < Len(Requests)
            /\ wire.requests[i].out \notin {"Ok", "Stall"} => i = Len(Requests)

\* a reset_stm32 that went on after its stalled DNLOAD and has returned
C14_Witness ==
    /\ Returned("reset_stm32")
    /\ StalledAt # {}
    /\ Len(Requests) > 4

(***************************************************************************)
(* C15: the open when no device matches the selector                       *)
(***************************************************************************)
\* C15 as claimed: when the device lookup finds no device that matches the
\* selector, the open returns DeviceNotFound (exit code 64) and does not
\* panic.
C15_NoDeviceIsDeviceNotFound ==
    (op.name = "from_vid_pid" /\ op.found = "no device") =>
        /\ pc = "done"
        /\ ret.tag = "DeviceNotFound"
        /\ ExitCode(ret) = 64

(***************************************************************************)
(* C16..C19: MemoryLayout                                                  *)
(***************************************************************************)
\* the layout parsed from the string, when from_str accepted it
Accepted == op.name = "from_str" /\ pc \in {"parsed", "addressed", "counted"}

\* the number of pages of the regions before the k-th
RECURSIVE CountsBefore(_, _)
CountsBefore(rs, k) == IF k <= 1 THEN 0 ELSE CountsBefore(rs, k - 1) + rs[k - 1].count

\* C16 as claimed: an accepted string gives sum-of-counts pages in the
\* order of the regions, each region `count` pages of size*1024 (K) or
\* size*1048576 (M) bytes, the first page at the base address, every page
\* starting where the one before it ends, no two pages overlapping.
C16_PagesOfRegions ==
    Accepted =>
        LET pages == dfu.mem_layout
            rs == ml.input.regions
        IN /\ Len(pages) = CountsBefore(rs, Len(rs) + 1)
           /\ \A k \in 1 .. Len(rs) : \A j \in 1 .. rs[k].count :
                LET p == pages[CountsBefore(rs, k) + j]
                IN /\ p.size % Factor(rs[k].unit) = 0
                   /\ p.size \div Factor(rs[k].unit) = rs[k].size
           /\ pages[1].address = ml.input.base
           /\ \A i \in 1 .. Len(pages) - 1 :
                pages[i + 1].address = pages[i].address + pages[i].size
           /\ \A i \in 1 .. Len(pages) : \A j \in i + 1 .. Len(pages) :
                pages[i].address + pages[i].size <= pages[j].address

\* the pages of the layout that hold the address asked for
Holders == {i \in 1 .. Len(dfu.mem_layout) :
               /\ dfu.mem_layout[i].address <= ml.a
               /\ ml.a < dfu.mem_layout[i].address + dfu.mem_layout[i].size}

\* C17: address(a) returns the address and the size of the one page that
\* holds a, and fails (with Address(a)) exactly when no page holds a.
C17_AddressIsThePageHolding ==
    pc = "addressed" =>
        /\ ml.page.ok <=> Holders # {}
        /\ ml.page.ok =>
             /\ Cardinality(Holders) = 1
             /\ \A i \in Holders : ml.page.page = Page(dfu.mem_layout[i].address,
                                                       dfu.mem_layout[i].size)

\* an address inside the second page of a layout, found
C17_Witness ==
    /\ pc = "addressed"
    /\ ml.page.ok
    /\ Len(dfu.mem_layout) > 1
    /\ ml.page.page = dfu.mem_layout[2]
    /\ ml.a > dfu.mem_layout[2].address

\* the pages of the layout that intersect [start, start + length)
Intersecting == {i \in 1 .. Len(dfu.mem_layout) :
                    /\ dfu.mem_layout[i].size > 0
                    /\ dfu.mem_layout[i].address < ml.start + ml.length
                    /\ dfu.mem_layout[i].address + dfu.mem_layout[i].size > ml.start}

\* the first address from start on that no page holds
Unmapped ==
    LET free == {a \in {ml.start} \cup {dfu.mem_layout[i].address + dfu.mem_layout[i].size :
                                          i \in 1 .. Len(dfu.mem_layout)} :
                   /\ a >= ml.start
                   /\ \A i \in 1 .. Len(dfu.mem_layout) : ~Holds(dfu.mem_layout[i], a)}
    IN CHOOSE a \in free : \A b \in free : a <= b

C19_MalformedIsMemoryLayoutError ==
    (/\ op.name = "from_str"
     /\ ml.input.kind \in {"unit", "no address", "no regions"}
     /\ \A i \in 1 .. Len(ml.input.regions) : Fits(ml.input.regions[i])) =>
        /\ pc = "done"
        /\ ret.tag = "MemoryLayout"

(***************************************************************************)
(* C20: the chunks of a Transaction                                        *)
(***************************************************************************)
\* the number of chunks of `length` bytes in transfers of `xfer_max`
CeilDiv(length, xfer_max) == (length + xfer_max - 1) \div xfer_max

\* C20 as claimed: a loop on a Transaction of L bytes with xfer_max X >= 1
\* gives ceil(L/X) chunks, chunk k (from 0) of min(L - k*X, X) bytes with the
\* counter 2 + k; the sizes sum to L and xfer is 0 after the last chunk.
C20_ChunksOfTransaction ==
    op.name = "Transaction" =>
        /\ pc # "panic"
        /\ tx.chunks > 0 =>
             LET k == tx.chunks - 1
                 left == tx.length - k * tx.xfer_max
             IN /\ tx.chunk.xfer = IF left < tx.xfer_max THEN left ELSE tx.xfer_max
                /\ tx.chunk.transaction = 2 + k
        /\ pc = "done" =>
             /\ tx.chunks = CeilDiv(tx.length, tx.xfer_max)
             /\ tx.sum = tx.length
             /\ tx.t.xfer = 0

(***************************************************************************)
(* C21: the address of a Transaction                                       *)
(***************************************************************************)
\* C21 as claimed: while a chunk of the Transaction is current, its address is
\* the start address plus the sizes of the chunks before it, also when the
\* current chunk is a final one shorter than xfer_max.
C21_AddressIsStartPlusChunksBefore ==
    (op.name = "Transaction" /\ pc = "transaction_loop" /\ tx.t.xfer > 0) =>
        tx.t.address = FlashBase + tx.sum

(***************************************************************************)
(* C22, C23: the bytes of a DfuSe command                                  *)
(***************************************************************************)
\* byte k (from 0) of the little-endian form of a
LeByte(a, k) == (a \div 2 ^ (8 * k)) % 256

C23_DecodingOfOpcodes ==
    cv.fn = "DfuseCommand::try_from" =>
        /\ cv.decoded.command.cmd # "ErasePage"
        /\ CASE cv.byte = 33 -> cv.decoded = [res |-> Ok, command |-> SetAddress(0)]
             [] cv.byte = 65 -> cv.decoded = [res |-> Ok, command |-> MassErase]
             [] cv.byte = 146 -> cv.decoded = [res |-> Ok, command |-> ReadUnprotected]
             [] OTHER -> /\ cv.decoded.res.tag = "UnknownCommandByte"
                         /\ cv.decoded.res.addr = cv.byte
                         /\ cv.decoded.command = NoCommand

\* the erase opcode has been decoded
C23_Witness ==
    /\ cv.fn = "DfuseCommand::try_from"
    /\ cv.byte = 65
    /\ IsOk(cv.decoded.res)

(***************************************************************************)
(* C24: State and its byte                                                 *)
(***************************************************************************)
\* the codes as listed: AppIdle = 0 .. DfuError = 10 in the order of the
\* enum, Unknown = 255
NamedStates == <<"AppIdle", "AppDetach", "DfuIdle", "DfuDownloadSync",
                 "DfuDownloadBusy", "DfuDownloadIdle", "DfuManifestSync",
                 "DfuManifest", "DfuManifestWaitReset", "DfuUploadIdle",
                 "DfuError">>
ListedByte(s) ==
    IF s = "Unknown" THEN 255
    ELSE (CHOOSE i \in 1 .. Len(NamedStates) : NamedStates[i] = s) - 1

\* C24: each of the 11 named states and Unknown has the listed code, the code
\* converts back to the state, and every byte outside 0..=10 converts to
\* Unknown.
C24_StateRoundTrip ==
    /\ cv.fn \in {"u8::from", "State::from(u8::from)"} =>
         cv.byte = ListedByte(cv.state)
    /\ cv.fn = "State::from(u8::from)" => cv.back = cv.state
    /\ cv.fn = "State::from" =>
         cv.back = IF cv.byte \in 0 .. 10 THEN NamedStates[cv.byte + 1] ELSE "Unknown"

\* DfuError has gone to its byte and back
C24_Witness ==
    /\ cv.fn = "State::from(u8::from)"
    /\ cv.state = "DfuError"
    /\ cv.byte = 10

(***************************************************************************)
(* C25: the decoding of a GET_STATUS reply                                 *)
(***************************************************************************)
\* C25: a reply that has not exactly 6 bytes fails with
\* InvalidControlResponse; a reply of 6 bytes b0..b5 gives status = b0,
\* poll_timeout = (b1<<16)|(b2<<8)|b3, state = b4 and string_index = b5.
C25_StatusOfReply ==
    cv.fn = "Status::get" =>
        IF Len(cv.data) = 6
        THEN /\ IsOk(cv.status)
             /\ cv.status.st.status = cv.data[1]
             /\ cv.status.st.poll_timeout =
                    cv.data[2] * 2 ^ 16 + cv.data[3] * 2 ^ 8 + cv.data[4]
             /\ cv.status.st.state = cv.data[5]
             /\ cv.status.st.string_index = cv.data[6]
        ELSE cv.status.tag = "InvalidControlResponse"

\* a reply of 6 bytes with different bytes of the timeout has been decoded
C25_Witness ==
    /\ cv.fn = "Status::get"
    /\ cv.data = <<0, 2, 0, U8Max, 2, 0>>
    /\ cv.status.st.poll_timeout = 131327

(***************************************************************************)
(* C26: the exit code                                                      *)
(***************************************************************************)
\* the codes as listed
ListedCode ==
    [DeviceNotFound |-> 64, Argument |-> 65, USB |-> 66,
     InvalidControlResponse |-> 68, InvalidState |-> 69, InvalidStatus |-> 70,
     FileIO |-> 71, UnknownCommandByte |-> 72, Address |-> 73, Verify |-> 74,
     MemoryLayout |-> 75]

\* C26: the process ends with the listed code of the variant of the error,
\* errors of different variants give different codes and no error gives 0.
C26_ExitCodes ==
    /\ (cv.fn = "main" /\ ~IsOk(cv.res)) =>
         /\ cv.res.tag \in DOMAIN ListedCode
         /\ cv.code = ListedCode[cv.res.tag]
         /\ cv.code # 0
    /\ \A e, f \in Errors : e.tag # f.tag => ExitCode(e) # ExitCode(f)
    /\ {e.tag : e \in Errors} = DOMAIN ListedCode

\* the process has ended on an UnknownCommandByte error
C26_Witness ==
    /\ cv.fn = "main"
    /\ cv.res.tag = "UnknownCommandByte"
    /\ cv.code = 72

(***************************************************************************)
(* C27, C30: the ErasePage commands of an erase                            *)
(***************************************************************************)
\* the DNLOAD transfer of dfuse_download(Vec::from(ErasePage(a)), 0)
EraseCommand(a) == Transfer(DFU_DNLOAD, 0, CmdBuf(VecFromDfuseCommand(ErasePage(a))))

ErasedOk == Returned("erase_pages") /\ IsOk(ret)

\* C27 as claimed: the erase subcommand with the argument start:N (op.address
\* and op.length) that succeeds has issued exactly N ErasePage commands, the
\* first for the page that contains start.
C27_EraseOfNPages ==
    ErasedOk =>
        /\ Len(wire.dnloads) = op.length
        /\ op.length > 0 =>
               wire.dnloads[1] = EraseCommand(address(dfu.mem_layout, op.address).page.address)

\* C30: an erase_pages(address, length) sends its first command after a
\* status read reported DfuIdle and each further one after status reads
\* reported DfuDownloadBusy and then DfuDownloadIdle; when it returns Ok it
\* has issued exactly num_pages(address, length) ErasePage commands with
\* transaction 0, the i-th (from 0) for page.address + i * page.size, page
\* being the page of the caller's address, and has seen DfuDownloadBusy and
\* DfuDownloadIdle after the last one.
C30_EraseSequence ==
    op.name = "erase_pages" =>
        LET n == num_pages(dfu.mem_layout, op.address, op.length)
            p == address(dfu.mem_layout, op.address)
            waited == IF wire.dnloads = <<>> THEN <<"DfuIdle">>
                      ELSE <<"DfuDownloadBusy", "DfuDownloadIdle">>
        IN /\ pc = "dfuse_download" =>
                /\ ep.seen = waited
                /\ Len(Requests) > 0 /\ Requests[Len(Requests)] = DFU_GET_STATUS
           /\ ErasedOk =>
                /\ n.ok /\ p.ok
                /\ wire.dnloads =
                       [i \in 1 .. n.pages |->
                           EraseCommand(p.page.address + (i - 1) * p.page.size)]
                /\ ep.seen = waited
                /\ Requests[Len(Requests)] = DFU_GET_STATUS

\* an erase from inside a page that took two commands has returned Ok
C30_Witness ==
    /\ ErasedOk
    /\ op.address = FlashBase + K \div 2
    /\ Len(wire.dnloads) = 2
    /\ wire.dnloads[2] # wire.dnloads[1]

(***************************************************************************)
(* C29: the transfers of abort_to_idle_clear_once                          *)
(***************************************************************************)
\* the i-th status read succeeded and reported DfuIdle (bState 2)
ReadIdle(i) == IsOk(aco.seen[i]) /\ aco.seen[i].st.state = 2

\* the transfers of a run that needs them all
ClearOnceRequests ==
    <<DFU_GET_STATUS, DFU_ABORT, DFU_GET_STATUS, DFU_CLRSTATUS, DFU_GET_STATUS>>

\* C29: abort_to_idle_clear_once issues at most one ABORT, one CLR_STATUS
\* and three status reads, in the order read, ABORT, read, CLR_STATUS, read;
\* when the first read reports DfuIdle it returns Ok with no other transfer;
\* when it reports another state there is one ABORT; the CLR_STATUS is
\* issued exactly when the second read reports another state than DfuIdle,
\* and is followed by one more read.
C29_ClearOnceIsOneShot ==
    op.name = "abort_to_idle_clear_once" =>
        /\ wire.aborts <= 1
        /\ wire.clears <= 1
        /\ Len(Requests) <= 5
        /\ Requests = SubSeq(ClearOnceRequests, 1, Len(Requests))
        /\ \A i \in 1 .. Len(Requests) : ~wire.requests[i].again
        /\ Returned("abort_to_idle_clear_once") =>
             /\ Len(aco.seen) \in 1 .. 3
             /\ ReadIdle(1) => (Requests = <<DFU_GET_STATUS>> /\ ret = Ok)
             /\ (IsOk(aco.seen[1]) /\ ~ReadIdle(1)) => wire.aborts = 1
             /\ ~IsOk(aco.seen[1]) => (Requests = <<DFU_GET_STATUS>> /\ ret = aco.seen[1])
             /\ Len(aco.seen) >= 2 =>
                  (wire.clears = 1 <=> (IsOk(aco.seen[2]) /\ ~ReadIdle(2)))
             /\ Len(aco.seen) < 2 => wire.clears = 0
             /\ (wire.clears = 1 /\ ~aco.failed) => Requests = ClearOnceRequests
             /\ (IsOk(ret) /\ ~ReadIdle(1)) =>
                  Requests = IF ReadIdle(2) THEN SubSeq(ClearOnceRequests, 1, 3)
                             ELSE ClearOnceRequests

\* a run in which the ABORT was enough: the second read reported DfuIdle
C29_Witness ==
    /\ Returned("abort_to_idle_clear_once")
    /\ ret = Ok
    /\ Requests = <<DFU_GET_STATUS, DFU_ABORT, DFU_GET_STATUS>>
    /\ ~ReadIdle(1)
    /\ ReadIdle(2)

(***************************************************************************)
(* C28: the drop of an engine that is not detached                         *)
(***************************************************************************)
\* the drop is under way
InDrop ==
    \/ pc \in {"drop_waited", "drop_aborted"}
    \/ \E i \in 1 .. Len(stack) : stack[i] \in {"drop_waited", "drop_aborted"}

\* C28: the drop of an engine that is not detached does not panic; when it
\* is over it has polled the status for DfuIdle, has issued an ABORT exactly
\* when that wait failed and no other command, whatever the ABORT and the
\* status read after it returned; and a device that follows the protocol is
\* in DfuIdle when the wait succeeded or the ABORT took it to DfuIdle.
C28_DropRecovers ==
    /\ InDrop => pc # "panic"
    /\ (pc = "dropped" /\ ~dfu.detached) =>
         /\ swf.target = "DfuIdle"
         /\ swf.arg = 0
         /\ swf.polls >= 1
         /\ wire.aborts = IF IsOk(fr.waited) THEN 0 ELSE 1
         /\ wire.clears = 0
         /\ wire.dnloads = <<>>
         /\ wire.uploads = <<>>
         /\ dev.mode = "spec" =>
              /\ IsOk(fr.waited) => dev.state = DevIdle
              /\ (wire.aborts = 1 /\ a2i.abort = "Ok" /\ a2i.left = DevIdle) =>
                     dev.state = DevIdle

\* a drop that found the device in another state, whose ABORT took the
\* device to DfuIdle
C28_Witness ==
    /\ pc = "dropped"
    /\ ~dfu.detached
    /\ dev.mode = "spec"
    /\ fr.waited.tag = "InvalidState"
    /\ wire.aborts = 1
    /\ a2i.left = DevIdle
    /\ IsOk(fr.aborted)

(***************************************************************************)
(* C31: the data phase of download_raw and the Transaction                 *)
(***************************************************************************)
\* the (xfer, transaction) pairs a loop on the Transaction t goes through
RECURSIVE PairsOf(_)
PairsOf(t) ==
    IF t.xfer = 0 THEN <<>>
    ELSE <<<<t.xfer, t.transaction>>>>
             \o PairsOf(CHOOSE n \in next(t) \ {NoTransaction} : TRUE)

\* the DNLOAD transfers of download_raw that carry bytes of the file
DataSent == SelectSeq(wire.dnloads, LAMBDA t : t.data.kind = "file")

\* C31: the data chunks download_raw sends have the sizes and the counters
\* of the chunks of Transaction::new(address, length, transfer_size), in
\* order, and carry the bytes of the file from its start on without a gap;
\* a download that succeeds has sent them all, length bytes together.
C31_DataPhaseFollowsTransaction ==
    op.name = "download_raw" =>
        LET pairs == PairsOf(Transaction_new(op.address, op.length, dfu.transfer_size))
        IN /\ Len(DataSent) <= Len(pairs)
           /\ \A j \in 1 .. Len(DataSent) :
                /\ <<DataSent[j].data.len, DataSent[j].value>> = pairs[j]
                /\ DataSent[j].data.off =
                     IF j = 1 THEN 0
                     ELSE DataSent[j - 1].data.off + DataSent[j - 1].data.len
           /\ (Returned("download_raw") /\ IsOk(ret)) =>
                /\ Len(DataSent) = Len(pairs)
                /\ op.length > 0 =>
                     DataSent[Len(DataSent)].data.off + DataSent[Len(DataSent)].data.len
                         = op.length

\* a download of two transfers and a half has succeeded
C31_Witness ==
    /\ Returned("download_raw")
    /\ IsOk(ret)
    /\ op.length = 2 * K + K \div 2
    /\ Len(DataSent) = 3
    /\ DataSent[3].data.len = K \div 2

(***************************************************************************)
(* C32: the order of the requests of a download                            *)
(***************************************************************************)
\* the sequence s taken k times
RECURSIVE Times(_, _)
Times(s, k) == IF k = 0 THEN <<>> ELSE s \o Times(s, k - 1)

\* the requests of a download of n pages and c chunks: the wait for
\* DfuIdle, per page the command and its status polls, the ABORT with its
\* polls, per chunk SetAddress and the data with their polls, the ABORT
DownloadRequests(n, c) ==
    <<DFU_GET_STATUS>>
        \o Times(<<DFU_DNLOAD, DFU_GET_STATUS>>, n)
        \o <<DFU_ABORT, DFU_GET_STATUS>>
        \o Times(<<DFU_DNLOAD, DFU_GET_STATUS, DFU_DNLOAD, DFU_GET_STATUS>>, c)
        \o <<DFU_ABORT, DFU_GET_STATUS>>

BusyThenIdle == <<"DfuDownloadBusy", "DfuDownloadIdle">>

\* C32: a download sends every ErasePage command after DfuIdle or, for the
\* pages after the first, DfuDownloadBusy then DfuDownloadIdle were
\* reported; the first SetAddress after the ABORT and a report of DfuIdle,
\* each data chunk after DfuDownloadIdle was reported for its SetAddress,
\* each further SetAddress after DfuDownloadBusy then DfuDownloadIdle were
\* reported for the chunk before. A download that succeeds has issued the
\* ErasePage commands, an ABORT, the (SetAddress, data) pairs and an ABORT
\* in this order, with status polls after each, and the status read after
\* the last ABORT reported DfuIdle.
C32_DownloadOrder ==
    op.name = "download_raw" =>
        LET n == Len(SelectSeq(wire.dnloads, IsErasePage))
            c == Len(DataSent)
        IN /\ (pc = "dfuse_download" /\ Head(stack) = "erase_pages_sent") =>
                /\ c = 0
                /\ ep.seen = IF n = 0 THEN <<"DfuIdle">> ELSE BusyThenIdle
           /\ (pc = "dfuse_download" /\ Head(stack) = "download_raw_addressed") =>
                /\ wire.aborts = 1
                /\ dr.seen = IF c = 0 THEN <<"DfuIdle">> ELSE BusyThenIdle
           /\ (pc = "dfuse_download" /\ Head(stack) = "download_raw_sent") =>
                dr.seen = <<"DfuDownloadIdle">>
           /\ (Returned("download_raw") /\ IsOk(ret)) =>
                /\ Len(wire.dnloads) = n + 2 * c
                /\ \A i \in 1 .. Len(wire.dnloads) :
                     /\ IsErasePage(wire.dnloads[i]) <=> i <= n
                     /\ wire.dnloads[i].data.kind = "file" <=> (i > n /\ (i - n) % 2 = 0)
                /\ Requests = DownloadRequests(n, c)
                /\ n > 0 => ep.seen = BusyThenIdle
                /\ dr.seen = IF c = 0 THEN <<"DfuIdle">> ELSE BusyThenIdle
                /\ wire.aborts = 2
                /\ IsOk(a2i.status) /\ a2i.status.st.state = 2

\* a download of two pages and two chunks has succeeded
C32_Witness ==
    /\ Returned("download_raw")
    /\ IsOk(ret)
    /\ Len(SelectSeq(wire.dnloads, IsErasePage)) = 2
    /\ Len(DataSent) = 2
    /\ Len(Requests) = 17

ErasedAt ==
    LET cmds == SelectSeq(wire.dnloads, IsErasePage)
    IN [i \in 1 .. Len(cmds) |-> AddressIn(cmds[i].data.bytes)]

\* the indexes of the pages of the layout that hold the address a
PagesHolding(a) ==
    {i \in 1 .. Len(dfu.mem_layout) :
        /\ dfu.mem_layout[i].address <= a
        /\ a < dfu.mem_layout[i].address + dfu.mem_layout[i].size}

\* C34 as claimed: every ErasePage command of an erase_pages is for the base
\* address of a page of the layout, and no page is addressed by two of them.
C34_ErasePagesAddressPages ==
    op.name = "erase_pages" =>
        /\ \A i \in 1 .. Len(ErasedAt) :
             \E p \in 1 .. Len(dfu.mem_layout) : dfu.mem_layout[p].address = ErasedAt[i]
        /\ \A i, j \in 1 .. Len(ErasedAt) :
             i # j => PagesHolding(ErasedAt[i]) \cap PagesHolding(ErasedAt[j]) = {}

(***************************************************************************)
(* C35: what a successful verify has compared (SpecVerifyShort)            *)
(***************************************************************************)
\* the bytes that the UPLOAD requests issued so far asked for, as offsets
\* from the verified address, had every reply been complete
Requested ==
    UNION {{(wire.uploads[k].value - 2) * dfu.transfer_size + j :
               j \in 0 .. wire.uploads[k].length - 1} : k \in 1 .. Len(wire.uploads)}

\* C35 as claimed: verify returns Ok only if every one of the length bytes
\* was read back and compared: the whole file was read, every offset below
\* length was uploaded, the device holds a byte there and it is the byte of
\* the file.
C35_VerifyComparesAll ==
    (Returned("verify") /\ IsOk(ret)) =>
        /\ vf.off = op.length
        /\ \A i \in 0 .. op.length - 1 :
             /\ i \in Requested
             /\ i < Len(dev.flash)
             /\ dev.flash[i + 1] = vf.file[i + 1]

(***************************************************************************)
(* C36: a range that the memory layout does not map                        *)
(***************************************************************************)
\* lines 358-359 of erase_pages: num_pages or address fails
NotMapped(a, length) ==
    \/ ~num_pages(dfu.mem_layout, a, length).ok
    \/ ~address(dfu.mem_layout, a).ok

UnmappedCall ==
    /\ op.name \in {"erase_pages", "download_raw"}
    /\ NotMapped(op.address, op.length)

\* C36 as claimed: erase_pages and download_raw on a range that the layout
\* does not map return the Address error, and have issued no DNLOAD request
\* (no ErasePage, SetAddress or data, so that the flash is as it was) and
\* no request but GET_STATUS.
C36_UnmappedReturnsAddress ==
    (UnmappedCall /\ Returned(op.name)) =>
        /\ ret.tag = "Address"
        /\ wire.dnloads = <<>>
        /\ \A i \in 1 .. Len(Requests) : Requests[i] = DFU_GET_STATUS

\* a download of two transfers from the base of the last 1 KiB page of a
\* layout has returned the Address error of the first address behind the
\* layout
C36_Witness ==
    /\ Returned("download_raw")
    /\ UnmappedCall
    /\ address(dfu.mem_layout, op.address).ok
    /\ op.length = 2 * K
    /\ ret = ErrAddress(op.address + K)
    /\ wire.dnloads = <<>>
    /\ Len(Requests) > 0

(***************************************************************************)
(* C37: the detached flag (SpecLifetime)                                   *)
(***************************************************************************)
\* what the operation of the run returned, once it is over
Outcome == IF pc = "done" THEN ret ELSE fr.result

\* the operation is over, or the drop after it is under way or over
Over == pc \in {"done", "dropped"} \/ InDrop

\* C37: detached is false after open and during every operation; it is true
\* exactly from the end of a reset_stm32 that returns Ok on, through the
\* drop, and no step makes it false again; after a reset_stm32 that returns
\* an error and after every other operation it is false, and the drop of an
\* engine that is not detached polls the status.
C37_DetachedOnlyAfterReset ==
    /\ dfu.detached <=> (Over /\ op.name = "reset_stm32" /\ IsOk(Outcome))
    /\ (pc = "dropped" /\ ~dfu.detached) => (swf.target = "DfuIdle" /\ swf.polls >= 1)
    /\ (pc = "dropped" /\ dfu.detached) => Requests = <<>>

\* a reset_stm32 whose empty DNLOAD failed has returned the error and the
\* engine is not detached
C37_Witness ==
    /\ Returned("reset_stm32")
    /\ ~IsOk(ret)
    /\ Len(wire.dnloads) = 2
    /\ ~dfu.detached

(***************************************************************************)
(* C38: the transaction counter of the data transfers (SpecTransaction)    *)
(***************************************************************************)
\* C38 as claimed: for every length and every transfer size >= 1 the
\* counter of the chunks is at least 2 (0 and 1 are not used), grows from
\* one chunk to the next, and its increment never overflows.
C38_CounterNeverWraps ==
    op.name = "Transaction" =>
        /\ pc # "panic"
        /\ tx.t.xfer > 0 => tx.t.transaction >= 2
        /\ tx.chunks > 0 =>
             /\ tx.chunk.transaction >= 2
             /\ tx.t.xfer > 0 => tx.t.transaction > tx.chunk.transaction

(***************************************************************************)
(* C39, C40: write_flash_from_slice (SpecSlice)                            *)
(***************************************************************************)
\* the call was given a slice that is not shorter than the transfer size
SliceTooLong == op.name = "write_flash_from_slice" /\ op.length >= dfu.transfer_size

\* C39 as claimed: a write_flash_from_slice with a slice that is not shorter
\* than the transfer size issues no DNLOAD request, neither an ErasePage
\* command nor another one, before it is rejected.
C39_RejectedBeforeAnyDnload ==
    SliceTooLong => wire.dnloads = <<>>

\* C40 as claimed: a write_flash_from_slice that returns Ok returns the
\* number of bytes of the slice, all of which were sent to the device.
C40_ReturnsBytesWritten ==
    (Returned("write_flash_from_slice") /\ IsOk(ret)) =>
        /\ ret = OkUsize(op.length)
        /\ op.length > 0 =>
             /\ Len(wire.dnloads) > 0
             /\ wire.dnloads[Len(wire.dnloads)] = Transfer(DFU_DNLOAD, 2, SliceBuf(op.length))

====
